---- MODULE Spec2Model ----
(***************************************************************************)
(* A model of the injection core of input-remapper: the macro interpreter  *)
(* (inputremapper/injection/macros/macro.py) and the per-source event      *)
(* reader (inputremapper/injection/event_reader.py).                       *)
(*                                                                         *)
(* Both run on one asyncio event loop.  A coroutine runs without           *)
(* interruption from one suspension point (an await that really suspends)  *)
(* to the next.  The macro part keeps this with the variable busy: while   *)
(* busy is TRUE the running macro task is in the middle of such a segment  *)
(* and nothing else of the process can act.                                *)
(***************************************************************************)
EXTENDS Integers, Sequences, FiniteSets, TLC

VARIABLES
    prog,             \* index of the compiled macro (the tree of Macro objects)
    running,          \* Macro.running, per macro
    released,         \* Macro._trigger_release_event.is_set(), per macro
    pressed,          \* Macro._trigger_press_event.is_set(), per macro
    triggering,       \* Macro._triggering_event (its code, or NoEvent), per macro
    stack,            \* the frames of the nested Macro.run calls in progress
    busy,             \* the macro task is between two suspension points
    woken,            \* the future the suspended task waits on has a result
    out,              \* what was written through the handler: <<code, value>>
    macro_variables,  \* the shared variable store
    listeners,        \* context.listeners: the if_single listeners installed
    listener_done,    \* the asyncio.Event listener_done of the waiting if_single
    success,          \* the closure variable success of the waiting if_single
    timed_out,        \* asyncio.wait_for of the waiting if_single or if_tap has
                      \* timed out
    trigger_code,     \* the closure variable trigger_code of the if_single task
    seen,             \* history: key events the current listener was called with
    branches,         \* history: branches the if_single tasks have run
    calls,            \* history: number of calls of run on the root macro
    rejected,         \* history: number of those calls that found it running
    rel_in_rep,       \* history: the trigger was released in the current repetition
    suspended,        \* history: the macro task has been suspended since the loop
                      \* of hold(macro) last checked the latch
    tap               \* history of the last if_tap task: is_holding() as wait()
                      \* found it, the changes of the trigger before the timeout,
                      \* the branches it ran

macroVars == <<prog, running, released, pressed, triggering, stack, busy, woken,
               out, macro_variables, listeners, listener_done, success,
               timed_out, trigger_code, seen, branches, calls, rejected,
               rel_in_rep, suspended, tap>>

VARIABLES
    reader_listeners, \* context.listeners, as the event reader sees it
    callbacks,        \* context.callbacks: (type, code) -> number of its handlers
    r_pc,             \* where EventReader.handle is
    objs,             \* the InputEvent objects: 1 is the event read, 1 + k the
                      \* event handler k was called with
    h_ref,            \* the object handler k was called with
    snapshot,         \* the copy of the listener set send_to_listeners goes through
    r_idx,            \* how many listeners of the snapshot were scheduled
    ready,            \* the ready queue of the event loop, first in first out
    h_state,          \* per handler coroutine: none, ready, waiting, woken, done
    h_result,         \* what the handler coroutines returned
    forwarded,        \* what was written to the forward device
    l_ran,            \* history: listeners that ran with the current event
    l_calls,          \* history: the calls of listeners with the current event, in order
    source_read,      \* history: the events read from the source, in order
    l_notified,       \* history: the events listeners were called with
    h_notified,       \* history: the events handlers were called with
    completed,        \* history: per event handled, what became of it
    nread             \* history: number of events read from the source

readerVars == <<reader_listeners, callbacks, r_pc, objs, h_ref, snapshot, r_idx, ready,
                h_state, h_result, forwarded, l_ran, l_calls, source_read, l_notified, h_notified,
                completed, nread>>

VARIABLES
    combinations,        \* the list _order_combinations is called with
    common_event,        \* the event all of them contain
    sorted_combinations  \* what _order_combinations returned (NotCalled before)

VARIABLES
    preset,           \* the mappings parse_mappings is called with
    next_mapping,     \* the mapping the first loop of parse_mappings is at
    handlers,         \* the local list handlers of parse_mappings
    parse_result,     \* how the call ended: NotEnded, returned or the error
    event_pipelines   \* what the caller got back (NotReturned before, and after
                      \* an error)

parseVars == <<preset, next_mapping, handlers, parse_result, event_pipelines>>

parserVars == <<combinations, common_event, sorted_combinations, parseVars>>

VARIABLES
    absinfo,          \* <<min, max>> the source reports for the axis
    input_event_value,\* AbsToBtnHandler._input_event.value: the configured percent
    abs_active,       \* AbsToBtnHandler._active
    sub_notified,     \* history: the values the sub-handler was notified with
    abs_call,         \* history: the last call of AbsToBtnHandler.notify
    key_handlers,     \* number of KeyHandlers in the pipeline of the key event
    key_active,       \* KeyHandler._active, per handler
    uinput_written,   \* what was written to the target uinput
    key_call          \* history: the last key event sent through the pipeline

handlerVars == <<absinfo, input_event_value, abs_active, sub_notified, abs_call,
                 key_handlers, key_active, uinput_written, key_call>>

VARIABLES
    capabilities,     \* Macro.capabilities, per macro: event type -> set of codes
    cap_call,         \* history: the last call of get_capabilities
    cap_adds          \* number of codes added to capabilities after compilation

capsVars == <<capabilities, cap_call, cap_adds>>

VARIABLES
    comb_pressed,     \* combination handler: which of its events are active
    comb_output,      \* combination handler: its sub-handler was triggered and not
                      \* yet released
    comb_sub,         \* history: the values the sub-handler was notified with
    comb_call         \* history: the last call of notify

combVars == <<comb_pressed, comb_output, comb_sub, comb_call>>

VARIABLES
    active_preset,    \* DataManager._active_preset: combination -> mapping
    active_mapping,   \* DataManager._active_mapping, as its combination
    button_left_warn, \* Controller.button_left_warn
    result_timers,    \* pending GLib timeouts of show_injection_result
    bus,              \* the messages the last call sent on the data bus
    gui_call,         \* history: the last call of the controller
    applied           \* history: calls of start_injecting so far (3: three or more)

guiVars == <<active_preset, active_mapping, button_left_warn, result_timers,
             bus, gui_call, applied>>

VARIABLES
    classified        \* a mapping and what _get_output_handler returned for it

classVars == <<classified>>

VARIABLES
    abs_pair          \* two AbsToBtnHandlers of one axis: the range of the axis,
                      \* their percents, their _active and the last event

pairVars == <<abs_pair>>

VARIABLES
    dm_group,         \* DataManager: the key of the active group, or NoGroup
    dm_preset,        \* the active preset: its name and its combinations
    dm_mapping,       \* the combination of the active mapping, or NoMapping
    dm_files,         \* the preset files of each group
    dm_autoload,      \* the preset each group autoloads, or NoName
    dm_call           \* the last operation, how it ended, the state before it

dmVars == <<dm_group, dm_preset, dm_mapping, dm_files, dm_autoload, dm_call>>

VARIABLES
    el_cfg,           \* the if_single, its then-branch and the callbacks
    el_ready,         \* the tasks and callbacks that are ready, first first
    el_reader,        \* where the reader's task is in handle
    el_macro,         \* where the task of if_single is
    el_log            \* the writes and the forward, in their order

loopVars == <<el_cfg, el_ready, el_reader, el_macro, el_log>>

VARIABLES
    pl_preset,        \* the mappings: their combination and the kind of output
    pl_pc,            \* where parse_mappings is
    pl_next,          \* the mapping of the next turn of the first loop
    pl_heap,          \* the handlers made: input_events and sub-handlers
    pl_handlers,      \* the list handlers of parse_mappings
    pl_need_ranking,  \* the dict need_ranking
    pl_ranked,        \* what _create_hierarchy_handlers returned
    pl_pipelines      \* the result: the list of handlers of each event

pipeVars == <<pl_preset, pl_pc, pl_next, pl_heap, pl_handlers, pl_need_ranking,
              pl_ranked, pl_pipelines>>

moreVars == <<classVars, pairVars, dmVars, loopVars, pipeVars>>

oldVars == <<macroVars, readerVars, parserVars, handlerVars, capsVars, combVars,
             guiVars>>

restVars == <<capsVars, combVars, guiVars, moreVars>>

vars == <<macroVars, readerVars, parserVars, handlerVars, restVars>>

(***************************************************************************)
(* Bounds of the model.                                                    *)
(***************************************************************************)
MaxOut == 8       \* writes recorded before the handler stops taking more
MaxCalls == 3     \* calls of run on the root macro
MaxSeen == 2      \* key events recorded per listener
MaxEvents == 2    \* events read from the source
MaxHandlers == 2  \* handlers registered for one (type, code)

(***************************************************************************)
(* Values of macro parameters: a literal number, a Variable (by name       *)
(* index), None, or a string that is no number.                            *)
(***************************************************************************)
NoneVal == [k |-> "none", v |-> 0]
IntVal(n) == [k |-> "int", v |-> n]
VarRef(n) == [k |-> "var", v |-> n]
StrVal == [k |-> "str", v |-> 0]
ErrorVal == [k |-> "error", v |-> 0]

VarNames == {1, 2}
NoEvent == "none"
TriggerCodes == {"KEY_T", "KEY_U"}

Root == 1
MacroIds == 1..3

(***************************************************************************)
(* Tasks, as the add_... functions append them.                            *)
(***************************************************************************)
Task(op, code, child, alt, arg) ==
    [op |-> op, code |-> code, child |-> child, alt |-> alt, arg |-> arg]

Key(c) == Task("key", c, 0, 0, NoneVal)
Hold == Task("hold", "", 0, 0, NoneVal)
HoldKey(c) == Task("hold_key", c, 0, 0, NoneVal)
HoldMacro(m) == Task("hold_macro", "", m, 0, NoneVal)
Modify(c, m) == Task("modify", c, m, 0, NoneVal)
Repeat(n, m) == Task("repeat", "", m, 0, n)
Set(name, value) == Task("set", "", name, 0, value)
IfSingle(then, else, timeout) == Task("if_single", "", then, else, timeout)
IfTap(then, else, timeout) == Task("if_tap", "", then, else, timeout)
Mouse(direction, speed) == Task("mouse", direction, 0, 0, speed)
Wheel(direction, speed) == Task("wheel", direction, 0, 0, speed)

(***************************************************************************)
(* The compiled macros the model runs.  Programs[p][m] is the task list of *)
(* macro m of program p; macro 1 is the outermost one.                     *)
(*   1  hold(key(a))                                                       *)
(*   2  modify(Shift_L, repeat(2, key(a))).key(b)                          *)
(*   3  hold(a).key(b)                                                     *)
(*   4  repeat($n, key(a)).key(b)                  ($n is not a number)    *)
(*   5  modify(Shift_L, repeat($n, key(a)).key(b)) (the child fails)       *)
(*   6  hold(modify(Shift_L, key(a)))                                      *)
(*   7  key(a).hold().key(b)                                               *)
(*   8  set(n, 2).repeat($n, key(a))                                       *)
(*   9  if_single(key(a), key(b), 300)                                     *)
(*  10  if_single(key(a), key(b))                  (no timeout)            *)
(*  11  hold(repeat($n, key(a)).key(b))            (the child fails)       *)
(*  12  set(n, "x").if_single(key(a), key(b), $n)  (the timeout fails)     *)
(*  13  repeat(2, key(a).repeat($n, key(b)))       (every repetition fails) *)
(*  14  if_tap(key(a), key(b), 300)                                         *)
(*  15  set(n, "x").if_tap(key(a), key(b), $n)     (the timeout fails)      *)
(*  16  hold(set(n, 2))                            (no task suspends)       *)
(*  17  mouse(up, 4).key(b)                                                 *)
(*  18  wheel(down, 1).key(b)                                               *)
(*  19  set(m, 2).set(n, $m).repeat($n, key(a))                             *)
(***************************************************************************)
Programs ==
    << << <<HoldMacro(2)>>, <<Key("a")>>, <<>> >>,
       << <<Modify("Shift_L", 2), Key("b")>>, <<Repeat(IntVal(2), 3)>>, <<Key("a")>> >>,
       << <<HoldKey("a"), Key("b")>>, <<>>, <<>> >>,
       << <<Repeat(VarRef(1), 2), Key("b")>>, <<Key("a")>>, <<>> >>,
       << <<Modify("Shift_L", 2)>>, <<Repeat(VarRef(1), 3), Key("b")>>, <<Key("a")>> >>,
       << <<HoldMacro(2)>>, <<Modify("Shift_L", 3)>>, <<Key("a")>> >>,
       << <<Key("a"), Hold, Key("b")>>, <<>>, <<>> >>,
       << <<Set(1, IntVal(2)), Repeat(VarRef(1), 2)>>, <<Key("a")>>, <<>> >>,
       << <<IfSingle(2, 3, IntVal(300))>>, <<Key("a")>>, <<Key("b")>> >>,
       << <<IfSingle(2, 3, NoneVal)>>, <<Key("a")>>, <<Key("b")>> >>,
       << <<HoldMacro(2)>>, <<Repeat(VarRef(1), 3), Key("b")>>, <<Key("a")>> >>,
       << <<Set(1, StrVal), IfSingle(2, 3, VarRef(1))>>, <<Key("a")>>, <<Key("b")>> >>,
       << <<Repeat(IntVal(2), 2)>>, <<Key("a"), Repeat(VarRef(1), 3)>>, <<Key("b")>> >>,
       << <<IfTap(2, 3, IntVal(300))>>, <<Key("a")>>, <<Key("b")>> >>,
       << <<Set(1, StrVal), IfTap(2, 3, VarRef(1))>>, <<Key("a")>>, <<Key("b")>> >>,
       << <<HoldMacro(2)>>, <<Set(1, IntVal(2))>>, <<>> >>,
       << <<Mouse("up", IntVal(4)), Key("b")>>, <<>>, <<>> >>,
       << <<Wheel("down", IntVal(1)), Key("b")>>, <<>>, <<>> >>,
       << <<Set(2, IntVal(2)), Set(1, VarRef(2)), Repeat(VarRef(1), 2)>>, <<Key("a")>>, <<>> >> >>

ProgramIds == 1..Len(Programs)

Tasks(m) == Programs[prog][m]

(***************************************************************************)
(* Variable.resolve, _type_check and _resolve.  A Variable is returned as  *)
(* it is by _type_check; None passes only where None is allowed; anything  *)
(* else that is no number raises (ErrorVal).                               *)
(***************************************************************************)
_type_check(value, allowNone) ==
    IF value.k = "var" THEN value
    ELSE IF value.k = "int" THEN value
    ELSE IF allowNone /\ value.k = "none" THEN value
    ELSE ErrorVal

_resolve(argument, typed, allowNone) ==
    IF argument.k = "var"
    THEN IF typed
         THEN _type_check(macro_variables[argument.v], allowNone)
         ELSE macro_variables[argument.v]
    ELSE argument

(***************************************************************************)
(* Macro.is_holding and the child_macros list of a macro, in the order the *)
(* add_... functions append them.                                          *)
(***************************************************************************)
is_holding(m) == ~released[m]

ChildrenOfTask(t) ==
    IF t.op \in {"hold_macro", "modify", "repeat"} THEN <<t.child>>
    ELSE IF t.op \in {"if_single", "if_tap"}
    THEN (IF t.child # 0 THEN <<t.child>> ELSE <<>>) \o
         (IF t.alt # 0 THEN <<t.alt>> ELSE <<>>)
    ELSE <<>>

RECURSIVE ChildrenOfTasks(_)
ChildrenOfTasks(ts) ==
    IF ts = <<>> THEN <<>>
    ELSE ChildrenOfTask(Head(ts)) \o ChildrenOfTasks(Tail(ts))

child_macros(m) == ChildrenOfTasks(Tasks(m))

(***************************************************************************)
(* Macro.press_trigger and Macro.release_trigger on the latches            *)
(* st = [released, pressed, triggering], with the calls on the children.   *)
(***************************************************************************)
RECURSIVE press_trigger(_, _, _)
RECURSIVE PressChildren(_, _, _)
PressChildren(st, ms, event) ==
    IF ms = <<>> THEN st
    ELSE PressChildren(press_trigger(st, Head(ms), event), Tail(ms), event)

\* press_trigger without the calls on the child macros
press_trigger_alone(st, m, event) ==
    IF ~st.released[m]
    THEN st
    ELSE [released |-> [st.released EXCEPT ![m] = FALSE],
          pressed |-> [st.pressed EXCEPT ![m] = TRUE],
          triggering |-> [st.triggering EXCEPT ![m] = event]]

press_trigger(st, m, event) ==
    IF ~st.released[m]
    THEN st
    ELSE PressChildren(
             [released |-> [st.released EXCEPT ![m] = FALSE],
              pressed |-> [st.pressed EXCEPT ![m] = TRUE],
              triggering |-> [st.triggering EXCEPT ![m] = event]],
             child_macros(m), event)

RECURSIVE release_trigger(_, _)
RECURSIVE ReleaseChildren(_, _)
ReleaseChildren(st, ms) ==
    IF ms = <<>> THEN st
    ELSE ReleaseChildren(release_trigger(st, Head(ms)), Tail(ms))

\* release_trigger that leaves the press latch as it is
release_trigger_keeps_press(st, m) ==
    ReleaseChildren(
        [released |-> [st.released EXCEPT ![m] = TRUE],
         pressed |-> st.pressed,
         triggering |-> st.triggering],
        child_macros(m))

release_trigger(st, m) ==
    ReleaseChildren(
        [released |-> [st.released EXCEPT ![m] = TRUE],
         pressed |-> [st.pressed EXCEPT ![m] = FALSE],
         triggering |-> st.triggering],
        child_macros(m))

Latches == [released |-> released, pressed |-> pressed, triggering |-> triggering]

(***************************************************************************)
(* The call stack of Macro.run.  A frame is a run of macro m that is at    *)
(* task number i, at the place l of that task, with loop counter c.        *)
(***************************************************************************)
Frame(m) == [m |-> m, i |-> 1, l |-> "start", c |-> 0]

Top == stack[Len(stack)]
Pop(stk) == SubSeq(stk, 1, Len(stk) - 1)
SetTop(stk, f) == [stk EXCEPT ![Len(stk)] = f]

InTask(op) ==
    /\ stack # <<>>
    /\ Top.i <= Len(Tasks(Top.m))
    /\ Tasks(Top.m)[Top.i].op = op

TopTask == Tasks(Top.m)[Top.i]

\* the for loop of Macro.run goes on with the next task
NextTask(f) == [f EXCEPT !.i = f.i + 1, !.l = "start", !.c = 0]

\* the handler the macro writes through
Written(ws) == out \o ws
CanWrite(n) == Len(out) + n <= MaxOut

(***************************************************************************)
(* Macro.run, called on macro m by a task that goes on at place ret of the *)
(* caller's frame f: a macro that is running already returns at once.      *)
(***************************************************************************)
\* run without the check of self.running
NeverRunning(m) == FALSE

AlreadyRunning(m) == running[m]

CallRun(f, ret, m) ==
    IF AlreadyRunning(m)
    THEN /\ stack' = SetTop(stack, [f EXCEPT !.l = ret])
         /\ running' = running
    ELSE /\ stack' = Append(SetTop(stack, [f EXCEPT !.l = ret]), Frame(m))
         /\ running' = [running EXCEPT ![m] = TRUE]

\* the end of Macro.run without the reset of running
FinishRunStaysRunning ==
    /\ running' = running
    /\ stack' = Pop(stack)
    /\ busy' = (Len(stack) > 1)

\* the end of Macro.run: running is reset and the caller goes on
FinishRun ==
    /\ running' = [running EXCEPT ![Top.m] = FALSE]
    /\ stack' = Pop(stack)
    /\ busy' = (Len(stack) > 1)

\* a task raised and no run catches it: every run in progress ends
RaisePropagates ==
    /\ running' = [m \in MacroIds |-> FALSE]
    /\ stack' = <<>>
    /\ busy' = FALSE

\* a task raised: Macro.run logs, leaves its loop and ends
RaiseInTask == FinishRun

unchangedLatches == UNCHANGED <<released, pressed, triggering>>

NoTap == [held |-> FALSE, events |-> <<>>, ran |-> <<>>]
unchangedIfSingle ==
    UNCHANGED <<listeners, listener_done, success, timed_out, trigger_code, seen, branches>>

(***************************************************************************)
(* The state after the macro has been compiled (Macro.__init__ and the     *)
(* add_... functions): nothing runs, the trigger is released, no variable  *)
(* is set.                                                                 *)
(***************************************************************************)
MacroInit ==
    /\ prog \in ProgramIds
    /\ running = [m \in MacroIds |-> FALSE]
    /\ released = [m \in MacroIds |-> TRUE]
    /\ pressed = [m \in MacroIds |-> FALSE]
    /\ triggering = [m \in MacroIds |-> NoEvent]
    /\ stack = <<>>
    /\ busy = FALSE
    /\ woken = FALSE
    /\ out = <<>>
    /\ macro_variables = [n \in VarNames |-> NoneVal]
    /\ listeners = {}
    /\ listener_done = FALSE
    /\ success = FALSE
    /\ timed_out = FALSE
    /\ trigger_code = NoEvent
    /\ seen = <<>>
    /\ branches = <<>>
    /\ calls = 0
    /\ rejected = 0
    /\ rel_in_rep = FALSE
    /\ suspended = TRUE
    /\ tap = NoTap

(***************************************************************************)
(* What the rest of the process does to the macro while its task is        *)
(* suspended (or not started): the handler of the mapping presses and      *)
(* releases the trigger and starts run.                                    *)
(***************************************************************************)
RepetitionInProgress ==
    \E k \in 1..(Len(stack) - 1) :
        /\ stack[k].i <= Len(Tasks(stack[k].m))
        /\ Tasks(stack[k].m)[stack[k].i].op = "hold_macro"

WaitsForRelease == stack # <<>> /\ Top.l \in {"h_wait", "hk_wait"}

\* wait() of if_tap is suspended
TapPending == stack # <<>> /\ Top.l \in {"t_press", "t_release"}

\* a wait() that asyncio.wait_for does not end when it times out
TapWaitsAfterTimeout == stack # <<>> /\ Top.l \in {"t_press", "t_release"}

\* wait() of if_tap is suspended and asyncio.wait_for has not timed out
TapWaits == stack # <<>> /\ Top.l \in {"t_press", "t_release"} /\ ~timed_out

\* the history of the waiting if_tap after a call that changed the trigger
TapSees(what, changed) ==
    IF TapWaits /\ changed THEN [tap EXCEPT !.events = Append(tap.events, what)] ELSE tap

\* The trigger is pressed and released by the handler of the mapping, which
\* the event loop runs for one event at a time: a task that a call has woken
\* has run before the next call.
PressTrigger ==
    /\ ~busy
    /\ ~woken
    /\ \E event \in TriggerCodes :
        LET st == press_trigger(Latches, Root, event) IN
        /\ released' = st.released
        /\ pressed' = st.pressed
        /\ triggering' = st.triggering
    \* Event.set gives the future of a waiting task its result
    /\ woken' = IF TapWaits /\ Top.l = "t_press" /\ released[Top.m] THEN TRUE ELSE woken
    /\ tap' = TapSees("press", stack # <<>> /\ released[Top.m])
    /\ UNCHANGED <<prog, running, stack, busy, out, macro_variables, calls, rejected,
                   rel_in_rep>>
    /\ unchangedIfSingle
    /\ suspended' = (suspended \/ ~busy')
    /\ UNCHANGED <<readerVars, parserVars, handlerVars, restVars>>

ReleaseTrigger ==
    /\ ~busy
    /\ ~woken
    /\ LET st == release_trigger(Latches, Root) IN
        /\ released' = st.released
        /\ pressed' = st.pressed
        /\ triggering' = st.triggering
    \* Event.set gives the future of a waiting task its result
    /\ woken' = IF (WaitsForRelease \/ (TapWaits /\ Top.l = "t_release")) /\ ~released[Top.m]
                THEN TRUE
                ELSE woken
    /\ rel_in_rep' = IF RepetitionInProgress /\ ~released[Root] THEN TRUE ELSE rel_in_rep
    /\ tap' = TapSees("release", stack # <<>> /\ ~released[Top.m])
    /\ UNCHANGED <<prog, running, stack, busy, out, macro_variables, calls, rejected>>
    /\ unchangedIfSingle
    /\ suspended' = (suspended \/ ~busy')
    /\ UNCHANGED <<readerVars, parserVars, handlerVars, restVars>>

RunCall ==
    /\ ~busy
    /\ calls < MaxCalls
    /\ calls' = calls + 1
    /\ IF AlreadyRunning(Root)
       THEN /\ rejected' = rejected + 1
            /\ UNCHANGED <<running, stack, busy>>
       ELSE /\ running' = [running EXCEPT ![Root] = TRUE]
            /\ stack' = Append(stack, Frame(Root))
            /\ busy' = TRUE
            /\ rejected' = rejected
    /\ UNCHANGED <<prog, woken, out, macro_variables, rel_in_rep>>
    /\ unchangedLatches
    /\ unchangedIfSingle
    /\ suspended' = (suspended \/ ~busy')
    /\ UNCHANGED <<tap, readerVars, parserVars, handlerVars, restVars>>

(***************************************************************************)
(* Macro.run after the last task, and the tasks.                           *)
(***************************************************************************)
RunEnds ==
    /\ busy
    /\ stack # <<>>
    /\ Top.i > Len(Tasks(Top.m))
    /\ FinishRun
    /\ UNCHANGED <<prog, woken, out, macro_variables, calls, rejected, rel_in_rep>>
    /\ unchangedLatches
    /\ unchangedIfSingle
    /\ suspended' = (suspended \/ ~busy')
    /\ UNCHANGED <<tap, readerVars, parserVars, handlerVars, restVars>>

\* add_key: press, pause, release, pause
KeyTask ==
    /\ InTask("key")
    /\ \/ /\ busy /\ Top.l = "start" /\ CanWrite(1)
          /\ out' = Written(<< <<TopTask.code, 1>> >>)
          /\ stack' = SetTop(stack, [Top EXCEPT !.l = "k_pause1"])
          /\ busy' = FALSE
       \/ /\ ~busy /\ Top.l = "k_pause1" /\ CanWrite(1)
          /\ out' = Written(<< <<TopTask.code, 0>> >>)
          /\ stack' = SetTop(stack, [Top EXCEPT !.l = "k_pause2"])
          /\ busy' = FALSE
       \/ /\ ~busy /\ Top.l = "k_pause2"
          /\ out' = out
          /\ stack' = SetTop(stack, NextTask(Top))
          /\ busy' = TRUE
    /\ UNCHANGED <<prog, running, woken, macro_variables, calls, rejected, rel_in_rep>>
    /\ unchangedLatches
    /\ unchangedIfSingle
    /\ suspended' = (suspended \/ ~busy')
    /\ UNCHANGED <<tap, readerVars, parserVars, handlerVars, restVars>>

\* add_hold without a parameter: wait for the release of the trigger
HoldTask ==
    /\ InTask("hold")
    /\ \/ /\ busy /\ Top.l = "start"
          /\ IF released[Top.m]
             THEN /\ stack' = SetTop(stack, NextTask(Top))
                  /\ UNCHANGED <<busy, woken>>
             ELSE /\ stack' = SetTop(stack, [Top EXCEPT !.l = "h_wait"])
                  /\ busy' = FALSE
                  /\ woken' = FALSE
       \/ /\ ~busy /\ Top.l = "h_wait" /\ woken
          /\ stack' = SetTop(stack, NextTask(Top))
          /\ busy' = TRUE
          /\ woken' = FALSE
    /\ UNCHANGED <<prog, running, out, macro_variables, calls, rejected, rel_in_rep>>
    /\ unchangedLatches
    /\ unchangedIfSingle
    /\ suspended' = (suspended \/ ~busy')
    /\ UNCHANGED <<tap, readerVars, parserVars, handlerVars, restVars>>

\* add_hold with a key name: the key is down until the trigger is released
HoldKeyTask ==
    /\ InTask("hold_key")
    /\ \/ /\ busy /\ Top.l = "start"
          /\ IF released[Top.m]
             THEN /\ CanWrite(2)
                  /\ out' = Written(<< <<TopTask.code, 1>>, <<TopTask.code, 0>> >>)
                  /\ stack' = SetTop(stack, NextTask(Top))
                  /\ UNCHANGED <<busy, woken>>
             ELSE /\ CanWrite(1)
                  /\ out' = Written(<< <<TopTask.code, 1>> >>)
                  /\ stack' = SetTop(stack, [Top EXCEPT !.l = "hk_wait"])
                  /\ busy' = FALSE
                  /\ woken' = FALSE
       \/ /\ ~busy /\ Top.l = "hk_wait" /\ woken /\ CanWrite(1)
          /\ out' = Written(<< <<TopTask.code, 0>> >>)
          /\ stack' = SetTop(stack, NextTask(Top))
          /\ busy' = TRUE
          /\ woken' = FALSE
    /\ UNCHANGED <<prog, running, macro_variables, calls, rejected, rel_in_rep>>
    /\ unchangedLatches
    /\ unchangedIfSingle
    /\ suspended' = (suspended \/ ~busy')
    /\ UNCHANGED <<tap, readerVars, parserVars, handlerVars, restVars>>

\* the loop of add_hold without its check of the latch
HoldLoopForever(m) == TRUE

\* add_hold with a macro: while self.is_holding(): await macro.run(handler)
HoldLoopGoesOn(m) == is_holding(m)

HoldMacroTask ==
    /\ InTask("hold_macro")
    /\ busy /\ Top.l = "start"
    /\ IF HoldLoopGoesOn(Top.m)
       THEN /\ CallRun(Top, "start", TopTask.child)
            /\ rel_in_rep' = FALSE
            /\ suspended' = FALSE
       ELSE /\ stack' = SetTop(stack, NextTask(Top))
            /\ running' = running
            /\ rel_in_rep' = FALSE
            /\ suspended' = suspended
    /\ UNCHANGED <<prog, busy, woken, out, macro_variables, calls, rejected>>
    /\ unchangedLatches
    /\ unchangedIfSingle
    /\ UNCHANGED <<tap, readerVars, parserVars, handlerVars, restVars>>

\* add_modify: pause, press the modifier, pause, run the child, pause,
\* release the modifier, pause
\* add_modify without handler(EV_KEY, resolved_code, 0)
modify_release_missing(code) == <<>>

\* handler(EV_KEY, resolved_code, 0)
modify_release(code) == << <<code, 0>> >>

ModifyTask ==
    /\ InTask("modify")
    /\ \/ /\ busy /\ Top.l = "start"
          /\ stack' = SetTop(stack, [Top EXCEPT !.l = "m_pause1"])
          /\ busy' = FALSE
          /\ UNCHANGED <<out, running>>
       \/ /\ ~busy /\ Top.l = "m_pause1" /\ CanWrite(1)
          /\ out' = Written(<< <<TopTask.code, 1>> >>)
          /\ stack' = SetTop(stack, [Top EXCEPT !.l = "m_pause2"])
          /\ busy' = FALSE
          /\ running' = running
       \/ /\ ~busy /\ Top.l = "m_pause2"
          /\ CallRun(Top, "m_after", TopTask.child)
          /\ busy' = TRUE
          /\ out' = out
       \/ /\ busy /\ Top.l = "m_after"
          /\ stack' = SetTop(stack, [Top EXCEPT !.l = "m_pause3"])
          /\ busy' = FALSE
          /\ UNCHANGED <<out, running>>
       \/ /\ ~busy /\ Top.l = "m_pause3" /\ CanWrite(1)
          /\ out' = Written(modify_release(TopTask.code))
          /\ stack' = SetTop(stack, [Top EXCEPT !.l = "m_pause4"])
          /\ busy' = FALSE
          /\ running' = running
       \/ /\ ~busy /\ Top.l = "m_pause4"
          /\ stack' = SetTop(stack, NextTask(Top))
          /\ busy' = TRUE
          /\ UNCHANGED <<out, running>>
    /\ UNCHANGED <<prog, woken, macro_variables, calls, rejected, rel_in_rep>>
    /\ unchangedLatches
    /\ unchangedIfSingle
    /\ suspended' = (suspended \/ ~busy')
    /\ UNCHANGED <<tap, readerVars, parserVars, handlerVars, restVars>>

\* a loop that runs the macro once more than range() says
RepeatsOnceMore(c) == c >= 0

\* for _ in range(...): there is another turn
RepeatGoesOn(c) == c > 0

\* add_repeat: for _ in range(_resolve(repeats, [int])): await macro.run(handler)
RepeatTask ==
    /\ InTask("repeat")
    /\ busy
    /\ \/ /\ Top.l = "start"
          /\ LET n == _resolve(TopTask.arg, TRUE, FALSE) IN
             IF n.k = "int"
             THEN /\ stack' = SetTop(stack, [Top EXCEPT !.l = "r_loop", !.c = n.v])
                  /\ UNCHANGED <<running, busy>>
             ELSE RaiseInTask
       \/ /\ Top.l = "r_loop"
          /\ IF RepeatGoesOn(Top.c)
             THEN CallRun([Top EXCEPT !.c = Top.c - 1], "r_loop", TopTask.child)
             ELSE /\ stack' = SetTop(stack, NextTask(Top))
                  /\ running' = running
          /\ busy' = busy
    /\ UNCHANGED <<prog, woken, out, macro_variables, calls, rejected, rel_in_rep>>
    /\ unchangedLatches
    /\ unchangedIfSingle
    /\ suspended' = (suspended \/ ~busy')
    /\ UNCHANGED <<tap, readerVars, parserVars, handlerVars, restVars>>

\* add_set: macro_variables[variable] = value
SetTask ==
    /\ InTask("set")
    /\ busy /\ Top.l = "start"
    /\ macro_variables' = [macro_variables EXCEPT ![TopTask.child] = TopTask.arg]
    /\ stack' = SetTop(stack, NextTask(Top))
    /\ UNCHANGED <<prog, running, busy, woken, out, calls, rejected, rel_in_rep>>
    /\ unchangedLatches
    /\ unchangedIfSingle
    /\ suspended' = (suspended \/ ~busy')
    /\ UNCHANGED <<tap, readerVars, parserVars, handlerVars, restVars>>

(***************************************************************************)
(* add_if_single.  The listener is named by the place of its task.  The    *)
(* timeout in ms: a number other than 0 is a timeout, None and 0 are none, *)
(* anything else makes the division raise.                                 *)
(***************************************************************************)
KeyEvents ==
    [type : {"EV_KEY"}, code : TriggerCodes, value : {0, 1}]

ListenerEvents ==
    KeyEvents \cup {[type |-> "EV_REL", code |-> "REL_X", value |-> 1]}

listener_sets_done(event) ==
    /\ event.type = "EV_KEY"
    /\ \/ event.code # trigger_code /\ event.value = 1
       \/ event.code = trigger_code /\ event.value = 0

\* a listener that never sets success
listener_never_succeeds(event) == FALSE

listener_sets_success(event) ==
    /\ event.type = "EV_KEY"
    /\ ~(event.code # trigger_code /\ event.value = 1)
    /\ event.code = trigger_code /\ event.value = 0

IfSingleWaits == stack # <<>> /\ Top.l = "s_wait"

HasTimeout(t) == t.k = "int" /\ t.v # 0

IfSingleTask ==
    /\ InTask("if_single")
    /\ \/ /\ busy /\ Top.l = "start"
          /\ IF triggering[Top.m] = NoEvent
             THEN /\ RaiseInTask
                  /\ UNCHANGED <<listeners, listener_done, success, timed_out,
                                 trigger_code, seen>>
             ELSE /\ trigger_code' = triggering[Top.m]
                  /\ listener_done' = FALSE
                  /\ success' = FALSE
                  /\ timed_out' = FALSE
                  /\ seen' = <<>>
                  /\ listeners' = listeners \cup {<<Top.m, Top.i>>}
                  /\ IF _resolve(TopTask.arg, TRUE, TRUE).k \in {"int", "none"}
                     THEN /\ stack' = SetTop(stack, [Top EXCEPT !.l = "s_wait"])
                          /\ busy' = FALSE
                          /\ running' = running
                     ELSE RaiseInTask
          /\ branches' = branches
       \/ /\ ~busy /\ Top.l = "s_wait"
          /\ listener_done \/ timed_out
          /\ listeners' = listeners \ {<<Top.m, Top.i>>}
          /\ IF success
             THEN /\ CallRun(Top, "s_after", TopTask.child)
                  /\ branches' = Append(branches, "then")
             ELSE /\ CallRun(Top, "s_after", TopTask.alt)
                  /\ branches' = Append(branches, "else")
          /\ busy' = TRUE
          /\ UNCHANGED <<listener_done, success, timed_out, trigger_code, seen>>
       \/ /\ busy /\ Top.l = "s_after"
          /\ stack' = SetTop(stack, NextTask(Top))
          /\ UNCHANGED <<running, busy, listeners, listener_done, success, timed_out,
                         trigger_code, seen, branches>>
    /\ UNCHANGED <<prog, woken, out, macro_variables, calls, rejected, rel_in_rep>>
    /\ unchangedLatches
    /\ suspended' = (suspended \/ ~busy')
    /\ UNCHANGED <<tap, readerVars, parserVars, handlerVars, restVars>>

\* EventReader.send_to_listeners lets the listener run with an event
ListenerCalled ==
    /\ ~busy
    /\ IfSingleWaits
    /\ <<Top.m, Top.i>> \in listeners
    /\ \E event \in ListenerEvents :
        /\ event.type = "EV_KEY" => Len(seen) < MaxSeen
        /\ seen' = IF event.type = "EV_KEY"
                   THEN Append(seen, <<event.code, event.value>>)
                   ELSE seen
        /\ success' = (success \/ listener_sets_success(event))
        /\ listener_done' = (listener_done \/ listener_sets_done(event))
    /\ UNCHANGED <<prog, running, stack, busy, woken, out, macro_variables, listeners,
                   timed_out, trigger_code, branches, calls, rejected, rel_in_rep>>
    /\ unchangedLatches
    /\ suspended' = (suspended \/ ~busy')
    /\ UNCHANGED <<tap, readerVars, parserVars, handlerVars, restVars>>

\* the timeout of asyncio.wait_for passes
TimeoutPasses ==
    /\ ~busy
    /\ IfSingleWaits
    /\ HasTimeout(_resolve(TopTask.arg, TRUE, TRUE))
    /\ ~listener_done
    /\ ~timed_out
    /\ timed_out' = TRUE
    /\ UNCHANGED <<prog, running, stack, busy, woken, out, macro_variables, listeners,
                   listener_done, success, trigger_code, seen, branches, calls, rejected,
                   rel_in_rep>>
    /\ unchangedLatches
    /\ suspended' = (suspended \/ ~busy')
    /\ UNCHANGED <<tap, readerVars, parserVars, handlerVars, restVars>>

(***************************************************************************)
(* add_mouse and add_wheel: while the macro is holding, write a relative   *)
(* event and sleep.  mouse writes the speed with the sign of the           *)
(* direction and sleeps the keycode pause; wheel writes 1 or -1 and sleeps *)
(* 1 / speed, which raises for the speed 0 after the first write.          *)
(***************************************************************************)
mouse_direction(direction) ==
    CASE direction = "up" -> <<"REL_Y", -1>>
      [] direction = "down" -> <<"REL_Y", 1>>
      [] direction = "left" -> <<"REL_X", -1>>
      [] direction = "right" -> <<"REL_X", 1>>

wheel_direction(direction) ==
    CASE direction = "up" -> <<"REL_WHEEL", 1>>
      [] direction = "down" -> <<"REL_WHEEL", -1>>
      [] direction = "left" -> <<"REL_HWHEEL", 1>>
      [] direction = "right" -> <<"REL_HWHEEL", -1>>

\* a loop that writes whether or not the trigger is held
WhileTrue(m) == TRUE

\* while self.is_holding():
WhileHolding(m) == is_holding(m)

\* one turn of the loop of add_mouse or add_wheel that writes w
RelLoop(w, sleep_raises) ==
    IF WhileHolding(Top.m)
    THEN /\ CanWrite(1)
         /\ out' = Written(<<w>>)
         /\ IF sleep_raises
            THEN RaiseInTask
            ELSE /\ stack' = SetTop(stack, [Top EXCEPT !.l = "rel_sleep"])
                 /\ busy' = FALSE
                 /\ running' = running
    ELSE /\ out' = out
         /\ stack' = SetTop(stack, NextTask(Top))
         /\ busy' = TRUE
         /\ running' = running

MouseTask ==
    /\ InTask("mouse")
    /\ LET speed == _resolve(TopTask.arg, TRUE, FALSE)
           d == mouse_direction(TopTask.code) IN
       \/ /\ busy /\ Top.l = "start"
          /\ IF speed.k # "int"
             THEN RaiseInTask /\ out' = out
             ELSE RelLoop(<<d[1], d[2] * speed.v>>, FALSE)
       \/ /\ ~busy /\ Top.l = "rel_sleep"
          /\ RelLoop(<<d[1], d[2] * speed.v>>, FALSE)
    /\ UNCHANGED <<prog, woken, macro_variables, calls, rejected, rel_in_rep>>
    /\ unchangedLatches
    /\ unchangedIfSingle
    /\ suspended' = (suspended \/ ~busy')
    /\ UNCHANGED <<tap, readerVars, parserVars, handlerVars, restVars>>

WheelTask ==
    /\ InTask("wheel")
    /\ LET speed == _resolve(TopTask.arg, TRUE, FALSE)
           d == wheel_direction(TopTask.code) IN
       \/ /\ busy /\ Top.l = "start"
          /\ IF speed.k # "int"
             THEN RaiseInTask /\ out' = out
             ELSE RelLoop(d, speed.v = 0)
       \/ /\ ~busy /\ Top.l = "rel_sleep"
          /\ RelLoop(d, speed.v = 0)
    /\ UNCHANGED <<prog, woken, macro_variables, calls, rejected, rel_in_rep>>
    /\ unchangedLatches
    /\ unchangedIfSingle
    /\ suspended' = (suspended \/ ~busy')
    /\ UNCHANGED <<tap, readerVars, parserVars, handlerVars, restVars>>

(***************************************************************************)
(* add_if_tap.  wait() waits for the release of the trigger if it is held, *)
(* and for a press and then the release if it is not; asyncio.wait_for     *)
(* ends it when the timeout passes first.                                  *)
(***************************************************************************)
\* except asyncio.TimeoutError
TimeoutRaised == timed_out /\ ~woken

\* then.run(handler) or _else.run(handler), if there is such a macro
RunBranch(name, m) ==
    /\ tap' = [tap EXCEPT !.ran = Append(tap.ran, name)]
    /\ IF m # 0
       THEN CallRun(Top, "t_after", m)
       ELSE /\ stack' = SetTop(stack, [Top EXCEPT !.l = "t_after"])
            /\ running' = running
    /\ busy' = TRUE
    /\ woken' = FALSE
    /\ timed_out' = timed_out

IfTapTask ==
    /\ InTask("if_tap")
    /\ \/ /\ busy /\ Top.l = "start"
          /\ LET resolved_timeout == _resolve(TopTask.arg, TRUE, FALSE) IN
             IF resolved_timeout.k # "int"
             THEN /\ RaiseInTask
                  /\ tap' = NoTap
                  /\ UNCHANGED <<woken, timed_out>>
             ELSE /\ tap' = [held |-> is_holding(Top.m), events |-> <<>>, ran |-> <<>>]
                  /\ stack' = SetTop(stack, [Top EXCEPT !.l = IF is_holding(Top.m)
                                                              THEN "t_release"
                                                              ELSE "t_press"])
                  /\ timed_out' = (resolved_timeout.v <= 0)
                  /\ woken' = FALSE
                  /\ busy' = FALSE
                  /\ running' = running
       \/ /\ ~busy /\ Top.l = "t_press" /\ woken /\ ~TimeoutRaised
          /\ IF released[Top.m]
             THEN RunBranch("then", TopTask.child)
             ELSE /\ stack' = SetTop(stack, [Top EXCEPT !.l = "t_release"])
                  /\ woken' = FALSE
                  /\ UNCHANGED <<running, busy, timed_out, tap>>
       \/ /\ ~busy /\ Top.l = "t_release" /\ woken /\ ~TimeoutRaised
          /\ RunBranch("then", TopTask.child)
       \/ /\ ~busy /\ Top.l \in {"t_press", "t_release"} /\ TimeoutRaised
          /\ RunBranch("else", TopTask.alt)
       \/ /\ busy /\ Top.l = "t_after"
          /\ stack' = SetTop(stack, NextTask(Top))
          /\ UNCHANGED <<running, busy, woken, timed_out, tap>>
    /\ UNCHANGED <<prog, out, macro_variables, listeners, listener_done, success,
                   trigger_code, seen, branches, calls, rejected, rel_in_rep>>
    /\ unchangedLatches
    /\ suspended' = (suspended \/ ~busy')
    /\ UNCHANGED <<readerVars, parserVars, handlerVars, restVars>>

\* the timeout of asyncio.wait_for passes while wait() is suspended
TapTimeoutPasses ==
    /\ ~busy
    /\ TapWaits
    /\ ~woken
    /\ timed_out' = TRUE
    /\ UNCHANGED <<prog, running, stack, busy, woken, out, macro_variables, listeners,
                   listener_done, success, trigger_code, seen, branches, calls, rejected,
                   rel_in_rep, tap>>
    /\ unchangedLatches
    /\ suspended' = (suspended \/ ~busy')
    /\ UNCHANGED <<readerVars, parserVars, handlerVars, restVars>>

MacroNext ==
    \/ PressTrigger
    \/ ReleaseTrigger
    \/ RunCall
    \/ RunEnds
    \/ KeyTask
    \/ HoldTask
    \/ HoldKeyTask
    \/ HoldMacroTask
    \/ ModifyTask
    \/ RepeatTask
    \/ SetTask
    \/ IfSingleTask
    \/ ListenerCalled
    \/ TimeoutPasses
    \/ IfTapTask
    \/ TapTimeoutPasses
    \/ MouseTask
    \/ WheelTask


(***************************************************************************)
(* The event reader.  The event loop runs the callbacks of its ready       *)
(* queue first in first out; each runs one coroutine from one suspension   *)
(* point to the next.  "R" is the task of EventReader.run and handle,      *)
(* "L" a task made by asyncio.ensure_future(listener(event)), "H" a task   *)
(* asyncio.gather makes of a coroutine a callback returned.                *)
(***************************************************************************)
ReaderEvents ==
    { [type |-> "EV_KEY", code |-> "KEY_A", value |-> 1],
      [type |-> "EV_KEY", code |-> "KEY_A", value |-> 2],
      [type |-> "EV_KEY", code |-> "KEY_B", value |-> 1],
      [type |-> "EV_SYN", code |-> "SYN_REPORT", value |-> 0],
      [type |-> "EV_MSC", code |-> "MSC_SCAN", value |-> 1] }

EventKeys == {<<e.type, e.code>> : e \in ReaderEvents}

ListenerIds == {1, 2}

NoObject == [type |-> "", code |-> "", value |-> 0]

RTask == [k |-> "R", id |-> 0]
LTask(l) == [k |-> "L", id |-> l]
HTask(h) == [k |-> "H", id |-> h]

\* the handlers are registered for KEY_A (any number of them), and one each
\* for SYN_REPORT and MSC_SCAN; none for KEY_B
CallbackTables ==
    { [key \in EventKeys |->
          IF key = <<"EV_KEY", "KEY_A">> THEN n
          ELSE IF key[1] \in {"EV_SYN", "EV_MSC"} THEN 1
          ELSE 0] : n \in 0..MaxHandlers }

ReaderInit ==
    /\ reader_listeners \in SUBSET ListenerIds
    /\ callbacks \in CallbackTables
    /\ r_pc = "idle"
    /\ objs = [o \in 1..(MaxHandlers + 2) |-> NoObject]
    /\ h_ref = [h \in 1..(MaxHandlers + 1) |-> 0]
    /\ snapshot = <<>>
    /\ r_idx = 0
    /\ ready = <<>>
    /\ h_state = [h \in 1..(MaxHandlers + 1) |-> "none"]
    /\ h_result = [h \in 1..(MaxHandlers + 1) |-> FALSE]
    /\ forwarded = <<>>
    /\ l_ran = {}
    /\ l_calls = <<>>
    /\ source_read = <<>>
    /\ l_notified = {}
    /\ h_notified = {}
    /\ completed = <<>>
    /\ nread = 0

\* the orders in which a set may be iterated
OrdersOf(S) ==
    {sq \in [1..Cardinality(S) -> S] : \A i, j \in 1..Cardinality(S) : sq[i] = sq[j] => i = j}

\* no event type is left out
NoTypeLeftOut(event) == FALSE

\* send_to_listeners and send_to_handlers leave these event types out
IsSynOrMsc(event) == event.type = "EV_MSC" \/ event.type = "EV_SYN"

\* a handle that treats the events a held down key repeats like any other
NoRepeatLeftOut(event) == FALSE

\* handle leaves the events out that a held down key repeats
IsKeyRepeat(event) == event.type = "EV_KEY" /\ event.value = 2

\* the callback gets the event object itself
copy_event_alias(store, h) == <<store, 1>>

\* copy_event: a new object with the fields of the event; the result is the
\* object store and the reference the callback gets
copy_event(store, h) == <<[store EXCEPT ![1 + h] = store[1]], 1 + h>>

\* the yield comes before the listener is scheduled
ScheduleListenerLate(queue, l) == Append(Append(queue, RTask), LTask(l))

\* asyncio.ensure_future(listener(event)) and then await asyncio.sleep(0)
ScheduleListener(queue, l) == Append(Append(queue, LTask(l)), RTask)

RECURSIVE HTasks(_, _)
HTasks(from, to) ==
    IF from > to THEN <<>> ELSE <<HTask(from)>> \o HTasks(from + 1, to)

RECURSIVE CopyAll(_, _, _)
CopyAll(st, h, n) ==
    IF h > n THEN st
    ELSE LET r == copy_event(st.store, h) IN
         CopyAll([store |-> r[1], ref |-> [st.ref EXCEPT ![h] = r[2]]], h + 1, n)

\* EventReader.forward
forward(event) == Append(forwarded, [type |-> event.type, code |-> event.code,
                                     value |-> event.value])

Complete(claimed, dropped) ==
    Append(completed, [orig |-> objs[MaxHandlers + 2], claimed |-> claimed,
                       dropped |-> dropped])

(***************************************************************************)
(* send_to_handlers with the rest of handle, in the state where the event  *)
(* loop's queue is queue: with no callback for the event the result is     *)
(* False at once and the event is forwarded; otherwise every callback is   *)
(* called with a copy of the event and handle waits for asyncio.gather.    *)
(***************************************************************************)
SendToHandlers(queue) ==
    LET event == objs[1]
        n == IF IsSynOrMsc(event) THEN 0 ELSE callbacks[<<event.type, event.code>>]
    IN IF n = 0
       THEN /\ forwarded' = forward(event)
            /\ completed' = Complete(FALSE, FALSE)
            /\ r_pc' = "idle"
            /\ ready' = queue
            /\ UNCHANGED <<objs, h_ref, h_state, h_result>>
       ELSE LET st == CopyAll([store |-> objs, ref |-> h_ref], 1, n) IN
            /\ objs' = st.store
            /\ h_ref' = st.ref
            /\ h_state' = [h \in DOMAIN h_state |-> IF h <= n THEN "ready" ELSE "none"]
            /\ h_result' = [h \in DOMAIN h_result |-> FALSE]
            /\ ready' = queue \o HTasks(1, n)
            /\ r_pc' = "gather"
            /\ UNCHANGED <<forwarded, completed>>

\* a loop over the listener set itself, which ends at a listener that left
MoreInTheSet(copy, set, done) == done < Len(copy) /\ copy[done + 1] \in set

\* `for listener in self.context.listeners.copy()`: the loop goes through
\* the copy, whatever became of the set
MoreListeners(copy, set, done) == done < Len(copy)

\* a reader that takes the next event while the last one is being handled
HandleNotAwaited(pc) == pc # "read"

\* `await self.handle(event)` in the loop of run: the next event is taken
\* when handle has returned
HandleReturned(pc) == pc = "idle"

\* the source has an event: the task of EventReader.run is made ready
EventArrives ==
    /\ HandleReturned(r_pc)
    /\ nread < MaxEvents
    /\ \E event \in ReaderEvents :
        /\ objs' = [o \in DOMAIN objs |->
                        IF o \in {1, MaxHandlers + 2} THEN event ELSE NoObject]
        /\ source_read' = Append(source_read, event)
    /\ nread' = nread + 1
    /\ r_pc' = "read"
    /\ ready' = Append(ready, RTask)
    /\ l_ran' = {}
    /\ l_calls' = <<>>
    /\ snapshot' = <<>>
    /\ r_idx' = 0
    /\ h_state' = [h \in DOMAIN h_state |-> "none"]
    /\ UNCHANGED <<reader_listeners, callbacks, h_ref, h_result, forwarded, l_notified,
                   h_notified, completed>>
    /\ UNCHANGED <<macroVars, parserVars, handlerVars, restVars>>

\* EventReader.handle from its start to its first suspension point
HandleStarts ==
    /\ ready # <<>> /\ Head(ready) = RTask
    /\ r_pc = "read"
    /\ LET event == objs[1] IN
       IF IsKeyRepeat(event)
       THEN /\ r_pc' = "idle"
            /\ ready' = Tail(ready)
            /\ completed' = Complete(FALSE, TRUE)
            /\ UNCHANGED <<objs, h_ref, snapshot, r_idx, h_state, h_result, forwarded>>
       ELSE IF IsSynOrMsc(event) \/ reader_listeners = {}
       THEN /\ SendToHandlers(Tail(ready))
            /\ UNCHANGED <<snapshot, r_idx>>
       ELSE /\ \E order \in OrdersOf(reader_listeners) :
                /\ snapshot' = order
                /\ ready' = ScheduleListener(Tail(ready), order[1])
            /\ r_idx' = 1
            /\ r_pc' = "listeners"
            /\ UNCHANGED <<objs, h_ref, h_state, h_result, forwarded, completed>>
    /\ UNCHANGED <<reader_listeners, callbacks, l_ran, l_calls, source_read, l_notified, h_notified, nread>>
    /\ UNCHANGED <<macroVars, parserVars, handlerVars, restVars>>

\* send_to_listeners after asyncio.sleep(0): the next listener, or on to the
\* handlers
HandleGoesOn ==
    /\ ready # <<>> /\ Head(ready) = RTask
    /\ r_pc = "listeners"
    /\ IF MoreListeners(snapshot, reader_listeners, r_idx)
       THEN /\ ready' = ScheduleListener(Tail(ready), snapshot[r_idx + 1])
            /\ r_idx' = r_idx + 1
            /\ UNCHANGED <<r_pc, objs, h_ref, h_state, h_result, forwarded, completed>>
       ELSE /\ SendToHandlers(Tail(ready))
            /\ r_idx' = r_idx
    /\ UNCHANGED <<reader_listeners, callbacks, snapshot, l_ran, l_calls, source_read, l_notified, h_notified,
                   nread>>
    /\ UNCHANGED <<macroVars, parserVars, handlerVars, restVars>>

\* handle after asyncio.gather: True in results, or forward
HandleEnds ==
    /\ ready # <<>> /\ Head(ready) = RTask
    /\ r_pc = "gather"
    /\ LET claimed == \E h \in DOMAIN h_state : h_state[h] = "done" /\ h_result[h] IN
       /\ forwarded' = IF claimed THEN forwarded ELSE forward(objs[1])
       /\ completed' = Complete(claimed, FALSE)
    /\ r_pc' = "idle"
    /\ ready' = Tail(ready)
    /\ UNCHANGED <<reader_listeners, callbacks, objs, h_ref, snapshot, r_idx, h_state,
                   h_result, l_ran, l_calls, source_read, l_notified, h_notified, nread>>
    /\ UNCHANGED <<macroVars, parserVars, handlerVars, restVars>>

\* a listener runs with the event up to its first suspension point; it may
\* take itself out of the listener set
ListenerRuns ==
    /\ ready # <<>> /\ Head(ready).k = "L"
    /\ LET l == Head(ready).id IN
       /\ l_ran' = l_ran \cup {l}
       /\ l_calls' = Append(l_calls, l)
       /\ l_notified' = l_notified \cup {objs[1]}
       /\ \E leaves \in BOOLEAN :
            reader_listeners' = IF leaves THEN reader_listeners \ {l} ELSE reader_listeners
    /\ ready' = Tail(ready)
    /\ UNCHANGED <<callbacks, r_pc, objs, h_ref, snapshot, r_idx, h_state, h_result,
                   forwarded, h_notified, completed, nread, source_read>>
    /\ UNCHANGED <<macroVars, parserVars, handlerVars, restVars>>

\* a task other than the reader's, a macro that starts or ends its wait,
\* adds a listener to the set or removes one; it runs between two steps of
\* the reader
ListenersChange ==
    /\ \E l \in ListenerIds :
        reader_listeners' = IF l \in reader_listeners
                            THEN reader_listeners \ {l}
                            ELSE reader_listeners \cup {l}
    /\ UNCHANGED <<callbacks, r_pc, objs, h_ref, snapshot, r_idx, ready, h_state,
                   h_result, forwarded, l_ran, l_calls, source_read, l_notified,
                   h_notified, completed, nread>>
    /\ UNCHANGED <<macroVars, parserVars, handlerVars, restVars>>

AllDone(hs) == \A h \in DOMAIN hs : hs[h] \in {"none", "done"}

\* a handler coroutine runs: it may change the event it was called with, and
\* it returns its result now or waits for something first
HandlerRuns ==
    /\ ready # <<>> /\ Head(ready).k = "H"
    /\ LET h == Head(ready).id IN
       /\ h_notified' = IF h_state[h] = "ready"
                        THEN h_notified \cup {objs[h_ref[h]]}
                        ELSE h_notified
       /\ \E changes \in BOOLEAN :
            objs' = IF changes /\ h_state[h] = "ready"
                    THEN [objs EXCEPT ![h_ref[h]].code = "KEY_Z", ![h_ref[h]].value = 1]
                    ELSE objs
       /\ \E waits \in BOOLEAN, result \in BOOLEAN :
            IF waits /\ h_state[h] = "ready"
            THEN /\ h_state' = [h_state EXCEPT ![h] = "waiting"]
                 /\ ready' = Tail(ready)
                 /\ h_result' = h_result
            ELSE /\ h_state' = [h_state EXCEPT ![h] = "done"]
                 /\ h_result' = [h_result EXCEPT ![h] = result]
                 /\ ready' = IF AllDone(h_state')
                             THEN Append(Tail(ready), RTask)
                             ELSE Tail(ready)
    /\ UNCHANGED <<reader_listeners, callbacks, r_pc, h_ref, snapshot, r_idx, forwarded,
                   l_ran, l_calls, source_read, l_notified, completed, nread>>
    /\ UNCHANGED <<macroVars, parserVars, handlerVars, restVars>>

\* what a handler coroutine waits for happens
HandlerWakes ==
    /\ \E h \in DOMAIN h_state :
        /\ h_state[h] = "waiting"
        /\ h_state' = [h_state EXCEPT ![h] = "woken"]
        /\ ready' = Append(ready, HTask(h))
    /\ UNCHANGED <<reader_listeners, callbacks, r_pc, objs, h_ref, snapshot, r_idx,
                   h_result, forwarded, l_ran, l_calls, source_read, l_notified, h_notified, completed, nread>>
    /\ UNCHANGED <<macroVars, parserVars, handlerVars, restVars>>

ReaderNext ==
    \/ EventArrives
    \/ HandleStarts
    \/ HandleGoesOn
    \/ HandleEnds
    \/ ListenerRuns
    \/ HandlerRuns
    \/ HandlerWakes
    \/ ListenersChange

(***************************************************************************)
(* mapping_parser.py: _order_combinations and ranges_with_constant_length. *)
(* A combination is the sequence of its events; list.sort is stable, which *)
(* the insertion sort below is too.  Indices are those of Python (from 0). *)
(***************************************************************************)
MaxCombinations == 3   \* combinations in the list that is ordered

OrderEvents == {"a", "b", "c"}
NotCalled == <<"not called">>
Raised == <<"MappingParsingError">>

Last(seq) == seq[Len(seq)]

Distinct(c) == \A i, j \in 1..Len(c) : c[i] = c[j] => i = j

\* the combinations of up to three different events that contain event
CombinationsWith(event) ==
    {c \in UNION {[1..n -> OrderEvents] : n \in 1..3} :
        Distinct(c) /\ \E i \in 1..Len(c) : c[i] = event}

\* tuple.index: the first position of event in combination, from 0
index(combination, event) ==
    (CHOOSE i \in 1..Len(combination) :
        /\ combination[i] = event
        /\ \A j \in 1..(i - 1) : combination[j] # event) - 1

\* list.sort(key=...): xs sorted by keys, elements with equal keys in the
\* order they had; keys maps the elements to their keys
RECURSIVE InsertByKey(_, _, _)
InsertByKey(x, xs, keys) ==
    IF xs = <<>> THEN <<x>>
    ELSE IF keys[Last(xs)] <= keys[x] THEN Append(xs, x)
    ELSE Append(InsertByKey(x, SubSeq(xs, 1, Len(xs) - 1), keys), Last(xs))

RECURSIVE SortByKey(_, _)
SortByKey(xs, keys) ==
    IF xs = <<>> THEN <<>>
    ELSE InsertByKey(Last(xs), SortByKey(SubSeq(xs, 1, Len(xs) - 1), keys), keys)

Elements(xs) == {xs[i] : i \in 1..Len(xs)}

RECURSIVE Reversed(_)
Reversed(xs) == IF xs = <<>> THEN <<>> ELSE Append(Reversed(Tail(xs)), Head(xs))

\* the loop of ranges_with_constant_length from position idx: the ranges
\* <<start, end>> it yields, ended by Raised when it raises
RECURSIVE RangesFrom(_, _, _, _)
RangesFrom(x, idx, start_idx, last_len) ==
    IF idx = Len(x) THEN <<>>
    ELSE LET y == Len(x[idx + 1]) IN
         (IF y > last_len /\ idx - start_idx > 1 THEN << <<start_idx, idx>> >> ELSE <<>>)
         \o (IF y = last_len /\ idx + 1 = Len(x)
             THEN << <<start_idx, idx + 1>> >> ELSE <<>>)
         \o (IF y < last_len THEN <<Raised>>
             ELSE RangesFrom(x, idx + 1, IF y > last_len THEN idx ELSE start_idx, y))

\* ranges_with_constant_length that yields no range
no_ranges(x) == <<>>

ranges_with_constant_length(x) == RangesFrom(x, 0, 0, 0)

\* sub_list = combinations[start:end]; sub_list.sort(key=index of the common
\* event); combinations[start:end] = sub_list, for every range in turn
RECURSIVE SortRanges(_, _, _)
SortRanges(xs, ranges, event) ==
    IF ranges = <<>> THEN xs
    ELSE IF Head(ranges) = Raised THEN Raised
    ELSE LET start == Head(ranges)[1]
             end == Head(ranges)[2]
             sub_list == SubSeq(xs, start + 1, end)
             keys == [c \in Elements(sub_list) |-> index(c, event)]
         IN SortRanges(SubSeq(xs, 1, start) \o SortByKey(sub_list, keys)
                           \o SubSeq(xs, end + 1, Len(xs)),
                       Tail(ranges), event)

_order_combinations(cs, event) ==
    LET by_len == SortByKey(cs, [c \in Elements(cs) |-> Len(c)])
        ranged == SortRanges(by_len, ranges_with_constant_length(by_len), event)
    IN IF ranged = Raised THEN Raised ELSE Reversed(ranged)

(***************************************************************************)
(* mapping_parser.py: parse_mappings and _get_output_handler.  A mapping   *)
(* is what _get_output_handler reads of it: whether it is disabled, the    *)
(* kind of its output symbol, its output type and the type of the event of *)
(* its combination with value 0 (_maps_axis); and, of the handler that     *)
(* _create_event_pipeline returns for it, whether it needs ranking and     *)
(* whether rank_by then returns a combination.                             *)
(***************************************************************************)
MaxMappings == 2   \* mappings of the preset

NotEnded == "not ended"
NotReturned == << [mapping |-> 0, handler_enum |-> "nothing returned", ranking |-> "no"] >>

Mapping(disabled, output_symbol, output_type, axis, ranking) ==
    [disabled |-> disabled, output_symbol |-> output_symbol,
     output_type |-> output_type, axis |-> axis, ranking |-> ranking]

Mappings ==
    { Mapping(TRUE, "none", "none", "none", "no"),
      Mapping(FALSE, "macro", "none", "none", "combination"),
      Mapping(FALSE, "key", "none", "none", "combination"),
      Mapping(FALSE, "key", "none", "none", "nothing"),
      Mapping(FALSE, "none", "EV_KEY", "none", "no"),
      Mapping(FALSE, "none", "EV_REL", "EV_ABS", "no"),
      Mapping(FALSE, "none", "EV_REL", "EV_REL", "no"),
      Mapping(FALSE, "none", "EV_ABS", "EV_KEY", "no"),
      Mapping(FALSE, "none", "EV_REL", "none", "no"),
      Mapping(FALSE, "none", "none", "EV_ABS", "no"),
      Mapping(FALSE, "none", "EV_MSC", "EV_ABS", "combination") }

\* _get_output_handler that takes every other output for a key
_get_output_handler_or_key(mapping) ==
    IF mapping.disabled THEN "disable"
    ELSE IF mapping.output_symbol = "macro" THEN "macro"
    ELSE IF mapping.output_type = "EV_REL" /\ mapping.axis = "EV_ABS" THEN "abs2rel"
    ELSE "key"

_get_output_handler(mapping) ==
    IF mapping.disabled THEN "disable"
    ELSE IF mapping.output_symbol # "none"
    THEN (IF mapping.output_symbol = "macro" THEN "macro" ELSE "key")
    ELSE IF mapping.output_type = "EV_KEY" THEN "key"
    ELSE IF mapping.axis = "none" THEN "MappingParsingError"
    ELSE IF mapping.output_type = "EV_REL" /\ mapping.axis = "EV_KEY" THEN "btn2rel"
    ELSE IF mapping.output_type = "EV_REL" /\ mapping.axis = "EV_REL" THEN "rel2rel"
    ELSE IF mapping.output_type = "EV_REL" /\ mapping.axis = "EV_ABS" THEN "abs2rel"
    ELSE IF mapping.output_type = "EV_ABS" /\ mapping.axis = "EV_KEY" THEN "btn2abs"
    ELSE IF mapping.output_type = "EV_ABS" /\ mapping.axis = "EV_REL" THEN "rel2abs"
    ELSE IF mapping.output_type = "EV_ABS" /\ mapping.axis = "EV_ABS" THEN "abs2abs"
    ELSE "MappingParsingError"

\* mapping_handler_classes: the handlers that have a class
mapping_handler_classes ==
    {"abs2btn", "rel2btn", "macro", "key", "abs2rel", "combination", "hierarchy",
     "axisswitch", "disable"}

ParseInit ==
    /\ preset \in UNION {[1..n -> Mappings] : n \in 1..MaxMappings}
    /\ next_mapping = 1
    /\ handlers = <<>>
    /\ parse_result = NotEnded
    /\ event_pipelines = NotReturned

ParseIdle ==
    /\ preset = <<Mapping(TRUE, "none", "none", "none", "no")>>
    /\ next_mapping = 1
    /\ handlers = <<>>
    /\ parse_result = NotEnded
    /\ event_pipelines = NotReturned

ParserInit ==
    /\ ParseIdle
    /\ common_event = "b"
    /\ combinations \in
          {cs \in UNION {[1..n -> CombinationsWith("b")] : n \in 2..MaxCombinations} :
              Distinct(cs)}
    /\ sorted_combinations = NotCalled

ParserIdle ==
    /\ ParseIdle
    /\ common_event = "b"
    /\ combinations = << <<"b">>, <<"a", "b">> >>
    /\ sorted_combinations = NotCalled

\* _create_hierarchy_handlers calls _order_combinations(combinations_with_event, event)
OrderCombinations ==
    /\ sorted_combinations = NotCalled
    /\ sorted_combinations' = _order_combinations(combinations, common_event)
    /\ UNCHANGED <<combinations, common_event, parseVars>>
    /\ UNCHANGED <<macroVars, readerVars, handlerVars, restVars>>

ParserNext == OrderCombinations

\* one turn of `for mapping in preset`
ParseMapping ==
    /\ parse_result = NotEnded
    /\ next_mapping <= Len(preset)
    /\ LET mapping == preset[next_mapping]
           handler_enum == _get_output_handler(mapping)
       IN IF handler_enum = "MappingParsingError"
          THEN /\ parse_result' = "MappingParsingError"
               /\ UNCHANGED <<handlers, next_mapping>>
          ELSE IF handler_enum \notin mapping_handler_classes
          THEN /\ parse_result' = "NotImplementedError"
               /\ UNCHANGED <<handlers, next_mapping>>
          ELSE /\ handlers' = Append(handlers, [mapping |-> next_mapping,
                                                 handler_enum |-> handler_enum,
                                                 ranking |-> mapping.ranking])
               /\ next_mapping' = next_mapping + 1
               /\ parse_result' = parse_result
    /\ UNCHANGED <<preset, event_pipelines>>
    /\ UNCHANGED <<combinations, common_event, sorted_combinations>>
    /\ UNCHANGED <<macroVars, readerVars, handlerVars, restVars>>

\* the rest of parse_mappings: the handlers that need ranking are taken out
\* and come back below their hierarchy handlers, and the pipelines are
\* returned; a handler without a combination to rank by raises
RankAndReturn ==
    /\ parse_result = NotEnded
    /\ next_mapping > Len(preset)
    /\ LET unranked == SelectSeq(handlers, LAMBDA h : h.ranking = "no")
           ranked == SelectSeq(handlers, LAMBDA h : h.ranking = "combination")
       IN IF \E i \in 1..Len(handlers) : handlers[i].ranking = "nothing"
          THEN /\ parse_result' = "MappingParsingError"
               /\ UNCHANGED <<handlers, event_pipelines>>
          ELSE /\ parse_result' = "returned"
               /\ handlers' = unranked \o ranked
               /\ event_pipelines' = unranked \o ranked
    /\ UNCHANGED <<preset, next_mapping>>
    /\ UNCHANGED <<combinations, common_event, sorted_combinations>>
    /\ UNCHANGED <<macroVars, readerVars, handlerVars, restVars>>

ParseNext ==
    \/ ParseMapping
    \/ RankAndReturn


(***************************************************************************)
(* abs_to_btn_handler.py: AbsToBtnHandler.                                 *)
(*                                                                         *)
(* _trigger_point computes, in floating point,                             *)
(*     half_range = (abs_max - abs_min) / 2                                *)
(*     middle = half_range + abs_min                                       *)
(*     int(middle + half_range * value / 100)                              *)
(* which is ((abs_max + abs_min) * 100 + (abs_max - abs_min) * value) / 200 *)
(* cut off towards zero by int().  The numbers of an axis are far below    *)
(* the precision of a float, so the quotient of the integers is exact.     *)
(***************************************************************************)
MaxNotified == 3   \* notifications of the sub-handler that are recorded

NoCall == [called |-> FALSE]

\* int(n / d) for d > 0: the quotient cut off towards zero
IntOfQuotient(n, d) == IF n >= 0 THEN n \div d ELSE -((-n) \div d)

\* _trigger_point without the case of the hat switch
_trigger_point_of_any_range(abs_min, abs_max, value) ==
    IntOfQuotient((abs_max + abs_min) * 100 + (abs_max - abs_min) * value, 200)

_trigger_point(abs_min, abs_max, value) ==
    IF abs_min = -1 /\ abs_max = 1
    THEN 0
    ELSE IntOfQuotient((abs_max + abs_min) * 100 + (abs_max - abs_min) * value, 200)

AxisRanges == {<<-1, 1>>, <<0, 4>>, <<-3, 3>>, <<0, 255>>, <<-255, 0>>}
Percents == {-100, -50, -1, 1, 50, 100}
AxisValues(range) ==
    IF range[2] - range[1] <= 8 THEN range[1]..range[2]
    ELSE {range[1], range[2], range[1] + 63, range[1] + 127, range[1] + 128, range[1] + 192}

\* a handler for which the trigger point itself counts as pressed
AsKeyFromTriggerPoint(event_value, trigger_point, configured) ==
    IF configured > 0
    THEN (IF event_value >= trigger_point THEN 1 ELSE 0)
    ELSE (IF event_value <= trigger_point THEN 1 ELSE 0)

\* the value 1 or 0 the event is modified to
AsKey(event_value, trigger_point, configured) ==
    IF configured > 0
    THEN (IF event_value > trigger_point THEN 1 ELSE 0)
    ELSE (IF event_value < trigger_point THEN 1 ELSE 0)

\* notify that passes every event on to the sub-handler
NotifiesAlways(value, active) == TRUE

\* bool(event.value) == self._active is false: the state changes
StateChanges(value, active) == (value # 0) # active

AbsInit ==
    /\ absinfo \in AxisRanges
    /\ input_event_value \in Percents
    /\ abs_active = FALSE
    /\ sub_notified = <<>>
    /\ abs_call = NoCall

\* AbsToBtnHandler.notify with an event of the axis of the handler
AbsNotify ==
    /\ \E event_value \in AxisValues(absinfo), sub_result \in BOOLEAN :
        LET trigger_point == _trigger_point(absinfo[1], absinfo[2], input_event_value)
            value == AsKey(event_value, trigger_point, input_event_value)
            changes == StateChanges(value, abs_active)
        IN /\ changes => Len(sub_notified) < MaxNotified
           /\ abs_active' = IF changes THEN value # 0 ELSE abs_active
           /\ sub_notified' = IF changes THEN Append(sub_notified, value) ELSE sub_notified
           /\ abs_call' = [called |-> TRUE, matching |-> TRUE, value |-> event_value,
                           trigger_point |-> trigger_point, as_key |-> value,
                           active |-> abs_active, notified |-> Len(sub_notified),
                           returned |-> IF changes THEN sub_result ELSE TRUE]
    /\ UNCHANGED <<absinfo, input_event_value>>
    /\ UNCHANGED <<key_handlers, key_active, uinput_written, key_call>>
    /\ UNCHANGED <<macroVars, readerVars, parserVars, restVars>>

\* AbsToBtnHandler.notify with an event of another type and code
AbsNotifyOther ==
    /\ \E event_value \in AxisValues(absinfo) :
        abs_call' = [called |-> TRUE, matching |-> FALSE, value |-> event_value,
                     trigger_point |-> 0, as_key |-> 0,
                     active |-> abs_active, notified |-> Len(sub_notified),
                     returned |-> FALSE]
    /\ UNCHANGED <<absinfo, input_event_value, abs_active, sub_notified>>
    /\ UNCHANGED <<key_handlers, key_active, uinput_written, key_call>>
    /\ UNCHANGED <<macroVars, readerVars, parserVars, restVars>>

(***************************************************************************)
(* key_handler.py: KeyHandler.notify, and the pipeline of a key event that *)
(* EventReader.handle sends through KeyHandlers.  global_uinputs.write of  *)
(* inputremapper is not part of the sources at hand: it writes the event   *)
(* to the named uinput, or raises an exceptions.Error when the uinput is   *)
(* missing or cannot emit the event.                                       *)
(***************************************************************************)
MaxWrites == 3     \* writes to the target uinput that are recorded

MapsTo(h) == <<"EV_KEY", IF h = 1 THEN "KEY_X" ELSE "KEY_Y">>

\* global_uinputs.write(event_tuple, target_uinput): the uinput afterwards, and
\* whether an exceptions.Error was raised
global_uinputs_write(written, event_tuple, available) ==
    IF available
    THEN [written |-> Append(written, event_tuple), error |-> FALSE]
    ELSE [written |-> written, error |-> TRUE]

\* what notify does after the write: an exceptions.Error that nothing catches
ErrorNotCaught(error, value, active) ==
    IF error THEN [returned |-> "raised", active |-> active]
    ELSE [returned |-> "true", active |-> value # 0]

\* try: ...; self._active = bool(event.value); return True
\* except exceptions.Error: return False
AfterWrite(error, value, active) ==
    IF error THEN [returned |-> "false", active |-> active]
    ELSE [returned |-> "true", active |-> value # 0]

\* KeyHandler.notify of handler h with an event of the given value
KeyNotify(st, h, value, available) ==
    LET w == global_uinputs_write(st.written, <<MapsTo(h)[1], MapsTo(h)[2], value>>,
                                  available)
        a == AfterWrite(w.error, value, st.active[h])
    IN [written |-> w.written,
        active |-> [st.active EXCEPT ![h] = a.active],
        results |-> Append(st.results, a.returned)]

\* the handlers of the pipeline are notified one after the other; an
\* exception ends the pipeline
RECURSIVE NotifyPipeline(_, _, _, _)
NotifyPipeline(st, h, value, available) ==
    IF h > key_handlers \/ (st.results # <<>> /\ Last(st.results) = "raised")
    THEN st
    ELSE NotifyPipeline(KeyNotify(st, h, value, available[h]), h + 1, value, available)

KeyInit ==
    /\ key_handlers \in 1..MaxHandlers
    /\ key_active = [h \in 1..(MaxHandlers + 1) |-> FALSE]
    /\ uinput_written = <<>>
    /\ key_call = NoCall

\* EventReader.handle with a key event whose callbacks are the notify
\* functions of the KeyHandlers
KeyEventHandled ==
    /\ Len(uinput_written) + key_handlers <= MaxWrites + 1
    /\ Len(forwarded) < MaxWrites
    /\ \E value \in {0, 1}, available \in [1..key_handlers -> BOOLEAN] :
        LET event == [type |-> "EV_KEY", code |-> "KEY_A", value |-> value]
            st == NotifyPipeline([written |-> uinput_written, active |-> key_active,
                                  results |-> <<>>], 1, value, available)
            raised == "raised" \in Elements(st.results)
        IN /\ uinput_written' = st.written
           /\ key_active' = st.active
           /\ forwarded' = IF raised \/ "true" \in Elements(st.results)
                            THEN forwarded
                            ELSE forward(event)
           /\ key_call' = [called |-> TRUE, event |-> event, available |-> available,
                           results |-> st.results, written |-> uinput_written,
                           forwarded |-> forwarded]
    /\ UNCHANGED key_handlers
    /\ UNCHANGED <<absinfo, input_event_value, abs_active, sub_notified, abs_call>>
    /\ UNCHANGED <<reader_listeners, callbacks, r_pc, objs, h_ref, snapshot, r_idx, ready,
                   h_state, h_result, l_ran, l_calls, source_read, l_notified, h_notified, completed, nread>>
    /\ UNCHANGED <<macroVars, parserVars, restVars>>

AbsIdle ==
    /\ AbsInit
    /\ absinfo = <<-1, 1>>
    /\ input_event_value = 1

KeyIdle ==
    /\ KeyInit
    /\ key_handlers = 1

HandlerIdle == AbsIdle /\ KeyIdle

AbsNext ==
    \/ AbsNotify
    \/ AbsNotifyOther

KeyNext == KeyEventHandled

(***************************************************************************)
(* The specifications: the macro interpreter with an idle reader, the      *)
(* event reader with no macro running, the mapping parser, and the         *)
(* handlers.                                                               *)
(***************************************************************************)
(***************************************************************************)
(* Macro.capabilities and get_capabilities.  The add_... functions put the *)
(* codes a macro writes into its own capabilities: the code of key,        *)
(* hold(key) and modify under EV_KEY, the four relative codes of a mouse   *)
(* under EV_REL for mouse and wheel; tasks add the codes they resolve when *)
(* they run.  An event type without codes is the same as a missing one.    *)
(***************************************************************************)
MaxAdds == 2      \* codes added to capabilities after compilation

CapTypes == {"EV_KEY", "EV_REL"}

NoCapabilities == [t \in CapTypes |-> {}]

CapPrograms == {2, 9, 17}

\* what a task may add when it runs
AddedCodes == {<<"EV_KEY", "c">>, <<"EV_REL", "REL_DIAL">>}

TaskCapabilities(t) ==
    [ty \in CapTypes |->
        IF ty = "EV_KEY" /\ t.op \in {"key", "hold_key", "modify"} THEN {t.code}
        ELSE IF ty = "EV_REL" /\ t.op \in {"mouse", "wheel"}
        THEN {"REL_X", "REL_Y", "REL_WHEEL", "REL_HWHEEL"}
        ELSE {}]

Merge(c1, c2) == [ty \in CapTypes |-> c1[ty] \cup c2[ty]]

RECURSIVE TasksCapabilities(_)
TasksCapabilities(ts) ==
    IF ts = <<>> THEN NoCapabilities
    ELSE Merge(TaskCapabilities(Head(ts)), TasksCapabilities(Tail(ts)))

NoCapCall == [called |-> FALSE, m |-> 0, result |-> NoCapabilities,
              before |-> <<>>, after |-> <<>>]

\* get_capabilities that merges into self.capabilities itself
merged_in_place(own, merged) == merged

\* copy.deepcopy(self.capabilities): the macro's own sets stay as they are
deepcopy_keeps(own, merged) == own

\* get_capabilities of macro m with the capabilities caps of all macros: the
\* result, and the capabilities of all macros after the call
RECURSIVE get_capabilities(_, _)
RECURSIVE MergeChildren(_, _, _)
MergeChildren(caps, acc, ms) ==
    IF ms = <<>> THEN [result |-> acc, caps |-> caps]
    ELSE LET r == get_capabilities(caps, Head(ms)) IN
         MergeChildren(r.caps, Merge(acc, r.result), Tail(ms))

get_capabilities(caps, m) ==
    LET r == MergeChildren(caps, caps[m], child_macros(m)) IN
    [result |-> r.result,
     caps |-> [r.caps EXCEPT ![m] = deepcopy_keeps(r.caps[m], r.result)]]

CapsInit ==
    /\ capabilities = [m \in MacroIds |-> TasksCapabilities(Tasks(m))]
    /\ cap_call = NoCapCall
    /\ cap_adds = 0

CapsIdle ==
    /\ capabilities = [m \in MacroIds |-> NoCapabilities]
    /\ cap_call = NoCapCall
    /\ cap_adds = 0

(***************************************************************************)
(* The combination handler (AND-gate) for three required events, as the    *)
(* specification describes it: it tracks the state of every required       *)
(* event, notifies its sub-handler of a trigger when the last of them      *)
(* becomes active and of a release when one of them becomes inactive, and  *)
(* does nothing for an event that is not one of its own.                   *)
(***************************************************************************)
MaxFired == 5     \* notifications of the sub-handler that are recorded

Required == {1, 2, 3}

CombEvents == {1, 2, 3, 4}

NoCombCall == [called |-> FALSE, event |-> 0, value |-> 0]

get_active(pressed_keys) == \A e \in Required : pressed_keys[e]

\* a handler that notifies its sub-handler with every event of its own
\* that leaves all events active
FiresWhenActive(active, output) == active \/ output

\* the sub-handler is notified when the state of the gate changes
Fires(active, output) == active # output

CombInit ==
    /\ comb_pressed = [e \in Required |-> FALSE]
    /\ comb_output = FALSE
    /\ comb_sub = <<>>
    /\ comb_call = NoCombCall

CombIdle == CombInit

(***************************************************************************)
(* The editor: Controller (gui/controller.py) and DataManager              *)
(* (gui/data_manager.py) with a preset loaded.  The preset is a map from   *)
(* event combination to mapping, the active mapping is named by its        *)
(* combination.  Preset and UIMapping (inputremapper/configs) are modelled *)
(* by what the controller, the data manager and their tests rely on: a     *)
(* preset holds one mapping per combination, Preset.add and the change of  *)
(* a mapping's combination raise KeyError when the combination is taken.   *)
(***************************************************************************)
MaxTimers == 1    \* pending timeouts of show_injection_result

empty_combination == 0

btn_left == 1

Combinations == {empty_combination, btn_left, 2}

NoMapping == 0 - 1

Symbols == {"a", "BTN_LEFT"}

\* UIMapping(): no target, no output
UIMapping == [target_uinput |-> "none", output_symbol |-> "none"]

MAPPING_DEFAULTS == "keyboard"

EmptyPreset == [c \in {} |-> UIMapping]

Keyboard(symbol) == [target_uinput |-> "keyboard", output_symbol |-> symbol]

\* the presets that are loaded when the editor starts
LoadedPresets ==
    { EmptyPreset,
      [c \in {2} |-> Keyboard("a")],
      [c \in {btn_left, 2} |-> Keyboard("a")] }

\* Preset.add, for a combination that is free
add(mappings, mapping) ==
    [c \in DOMAIN mappings \cup {empty_combination} |->
        IF c \in DOMAIN mappings THEN mappings[c] ELSE mapping]

\* Preset.remove
remove(mappings, combination) ==
    [c \in DOMAIN mappings \ {combination} |-> mappings[c]]

\* the mapping of combination old becomes the mapping of combination new
move(mappings, old, new) ==
    [c \in (DOMAIN mappings \ {old}) \cup {new} |->
        IF c = new THEN mappings[old] ELSE mappings[c]]

\* the KeyError of Preset.add and of the change of a combination
taken(mappings, combination) == combination \in DOMAIN mappings

dangerously_mapped_btn_left(mappings) ==
    /\ btn_left \in DOMAIN mappings
    /\ \A c \in DOMAIN mappings : mappings[c].output_symbol # "BTN_LEFT"

\* Preset.is_valid: no mapping has an error
is_valid(mappings) ==
    \A c \in DOMAIN mappings :
        /\ c # empty_combination
        /\ mappings[c].target_uinput # "none"
        /\ mappings[c].output_symbol # "none"

Message(type) ==
    [type |-> type, ctx |-> "", msg |-> "", tooltip |-> <<>>,
     old |-> NoMapping, new |-> NoMapping]

StatusData(ctx, msg, tooltip) ==
    [Message("status") EXCEPT !.ctx = ctx, !.msg = msg, !.tooltip = tooltip]

CombinationUpdate(old, new) ==
    [Message("combination_update") EXCEPT !.old = old, !.new = new]

MappingData(combination) == [Message("mapping") EXCEPT !.new = combination]

PresetData(mappings) ==
    [Message("preset") EXCEPT !.new = Cardinality(DOMAIN mappings)]

\* one message stands for the messages of all mappings that have an error
_send_mapping_errors(mappings) ==
    IF is_valid(mappings)
    THEN <<StatusData("CTX_MAPPING", "", <<>>)>>
    ELSE <<StatusData("CTX_MAPPING", "Mapping error, hover for info", <<>>)>>

_send_preset(mappings) == <<PresetData(mappings)>> \o _send_mapping_errors(mappings)

_send_mapping(mappings, mapping) ==
    IF mapping # NoMapping
    THEN <<MappingData(mapping)>> \o _send_mapping_errors(mappings)
    ELSE <<MappingData(NoMapping)>>

\* a data manager that announces no change of a combination
AnnouncesNever(old, new) == FALSE

\* DataManager.update_mapping announces a combination that changed
Announces(old, new) == old # new

\* the warning is shown whenever the preset is dangerous
WarnsAgain(warned, mappings) == dangerously_mapped_btn_left(mappings)

\* Controller.start_injecting warns once about a dangerous preset
Warns(warned, mappings) ==
    /\ ~warned
    /\ dangerously_mapped_btn_left(mappings)

BtnLeftWarning ==
    StatusData("CTX_ERROR", "This would disable your click button",
               <<"Map a button to ", "BTN_LEFT", " to avoid this.",
                 "To overwrite this warning, press apply again.">>)

NoGuiCall ==
    [op |-> "none", arg |-> NoMapping, nr |-> 0, follows |-> FALSE,
     preset |-> EmptyPreset, mapping |-> NoMapping, started |-> FALSE,
     raised |-> FALSE]

\* the record of a call: its argument and the state it was made in
GuiCall(op, arg) ==
    [NoGuiCall EXCEPT !.op = op, !.arg = arg,
                      !.follows = (gui_call.op = "start_injecting"),
                      !.preset = active_preset, !.mapping = active_mapping]

GuiInit ==
    /\ active_preset \in LoadedPresets
    /\ active_mapping = NoMapping
    /\ button_left_warn = FALSE
    /\ result_timers = 0
    /\ bus = <<>>
    /\ gui_call = NoGuiCall
    /\ applied = 0

GuiIdle ==
    /\ active_preset = EmptyPreset
    /\ active_mapping = NoMapping
    /\ button_left_warn = FALSE
    /\ result_timers = 0
    /\ bus = <<>>
    /\ gui_call = NoGuiCall
    /\ applied = 0

(***************************************************************************)
(* _get_output_handler applied to one mapping, for every mix of what it    *)
(* reads of the mapping: disabled, the kind of the output symbol, the      *)
(* output type and the type of the event with value 0 of the combination.  *)
(***************************************************************************)
OutputSymbols == {"none", "macro", "key"}

OutputTypes == {"none", "EV_KEY", "EV_REL", "EV_ABS", "EV_MSC"}

\* _maps_axis: the type of the event with value 0, none without such an event
AxisEventTypes == {"none", "EV_KEY", "EV_REL", "EV_ABS", "EV_MSC"}

AllMappings ==
    { Mapping(disabled, output_symbol, output_type, axis, "no") :
        disabled \in BOOLEAN, output_symbol \in OutputSymbols,
        output_type \in OutputTypes, axis \in AxisEventTypes }

ClassInit ==
    /\ classified \in { [mapping |-> mapping, result |-> "not called"] :
                            mapping \in AllMappings }

ClassIdle ==
    /\ classified = [mapping |-> Mapping(TRUE, "none", "none", "none", "no"),
                     result |-> "not called"]

\* the ranges of the axis both handlers read: those of one handler, a
\* range of one value and one that is not symmetric
PairRanges == AxisRanges \cup {<<2, 2>>, <<0 - 6, 2>>}

NoPairCall == [called |-> FALSE, value |-> 0, trigger_points |-> <<0, 0>>]

PairInit ==
    /\ abs_pair \in { [range |-> range, percents |-> <<positive, negative>>,
                       active |-> <<FALSE, FALSE>>, call |-> NoPairCall] :
                        range \in PairRanges,
                        positive \in {v \in Percents : v > 0},
                        negative \in {v \in Percents : v < 0} }

PairIdle ==
    /\ abs_pair = [range |-> <<0, 4>>, percents |-> <<1, 0 - 1>>,
                   active |-> <<FALSE, FALSE>>, call |-> NoPairCall]

(***************************************************************************)
(* DataManager (gui/data_manager.py) on its own: the active group, preset  *)
(* and mapping, the preset files of each group and the preset each group   *)
(* autoloads.  A preset is its name and the combinations of its mappings;  *)
(* of a preset file only its existence is kept, what it holds is any set   *)
(* of mappings when it is loaded.  What the configuration keeps            *)
(* (GlobalConfig) is one autoloaded preset per group or none.  The         *)
(* messages the operations send are part of the model of the controller.   *)
(***************************************************************************)
Groups == {1, 2}

GroupKeys == {1, 2, 3}

PresetNames == {1, 2}

NoGroup == 0

NoName == 0

NoPreset == [name |-> NoName, mappings |-> {}]

DmCombinations == {empty_combination, btn_left}

NoDmCall ==
    [op |-> "none", arg |-> 0, raised |-> "", group |-> NoGroup, preset |-> NoPreset,
     mapping |-> NoMapping, autoload |-> [g \in Groups |-> NoName]]

DmCall(op, arg, raised) ==
    [op |-> op, arg |-> arg, raised |-> raised, group |-> dm_group,
     preset |-> dm_preset, mapping |-> dm_mapping, autoload |-> dm_autoload]

\* Preset.save / os.remove / os.rename on the files of group g
Saved(files, g, n) == [files EXCEPT ![g] = @ \cup {n}]

Removed(files, g, n) == [files EXCEPT ![g] = @ \ {n}]

\* a set_autoload that asks whether the active preset is the autoloaded one
get_autoload_called(autoloaded, name) == autoloaded = name

\* `elif self.get_autoload:` is the method itself, which counts as true
get_autoload(autoloaded, name) == TRUE

\* GlobalConfig.set_autoload_preset
set_autoload_preset(autoload, g, n) == [autoload EXCEPT ![g] = n]

DmInit ==
    /\ dm_group = NoGroup
    /\ dm_preset = NoPreset
    /\ dm_mapping = NoMapping
    /\ dm_files = [g \in Groups |-> IF g = 1 THEN {1} ELSE PresetNames]
    /\ dm_autoload \in { [g \in Groups |-> IF g = 2 THEN n ELSE NoName] :
                            n \in {NoName, 2} }
    /\ dm_call = NoDmCall

DmIdle ==
    /\ dm_group = NoGroup
    /\ dm_preset = NoPreset
    /\ dm_mapping = NoMapping
    /\ dm_files = [g \in Groups |-> {}]
    /\ dm_autoload = [g \in Groups |-> NoName]
    /\ dm_call = NoDmCall

(***************************************************************************)
(* The event loop while the reader handles the release of the trigger of a *)
(* waiting if_single: the reader's task, the listener tasks made by        *)
(* ensure_future, the macro's task and the handler coroutines of           *)
(* asyncio.gather run one at a time in the order in which they became      *)
(* ready.  The writes of the macro and of the handlers and the forwarded   *)
(* event are logged in the order they are made.                            *)
(***************************************************************************)
MaxLoopHandlers == 2   \* callbacks for the event

\* the order of the copy of the listener set
ListenerOrders == {<<"if_single">>, <<"if_single", "other">>, <<"other", "if_single">>}

\* if_single with or without a timeout; wait_for with a timeout runs the
\* wait in a task of its own or waits in place, by the version of asyncio;
\* the then-branch is key(...) or modify(...); the pause of the macro in
\* loop passes; the callbacks for the event, each writing or not; whether
\* one returns True
LoopConfigs ==
    { c \in [timeout : BOOLEAN, inner : BOOLEAN, then : {"key", "modify"},
             pause : {0, 1}, listeners : ListenerOrders,
             handlers : UNION {[1..n -> BOOLEAN] : n \in 1..MaxLoopHandlers},
             claimed : BOOLEAN] :
        /\ c.inner => c.timeout
        /\ c.then = "key" => c.pause = 0 }

LoopTask(k, id) == [k |-> k, id |-> id]

RECURSIVE LoopHandlers(_, _)
LoopHandlers(from, to) ==
    IF from > to THEN <<>>
    ELSE <<LoopTask("handler", from)>> \o LoopHandlers(from + 1, to)

\* listener_done.set() makes the task ready that waits for the event: the
\* macro's, or the one asyncio.wait_for made for the wait
wait_for(cfg) == IF cfg.timeout /\ cfg.inner THEN "wait" ELSE "macro"

\* the first task of the then-branch: key writes at once, modify pauses
\* before it writes the modifier
WritesAtOnce(cfg) == cfg.then = "key"

LoopInit ==
    /\ el_cfg \in LoopConfigs
    /\ el_ready = <<LoopTask("reader", 0)>>
    /\ el_reader = [pc |-> "listeners", idx |-> 0, pending |-> 0]
    /\ el_macro = "waiting"
    /\ el_log = <<>>

LoopIdle ==
    /\ el_cfg = [timeout |-> FALSE, inner |-> FALSE, then |-> "key", pause |-> 0,
                 listeners |-> <<"if_single">>, handlers |-> <<FALSE>>,
                 claimed |-> FALSE]
    /\ el_ready = <<>>
    /\ el_reader = [pc |-> "done", idx |-> 0, pending |-> 0]
    /\ el_macro = "waiting"
    /\ el_log = <<>>

(***************************************************************************)
(* mapping_parser.py: the pipelines parse_mappings builds.  A handler is   *)
(* named by its class, the mapping it was made for and, for a hierarchy    *)
(* handler, its number and event; what changes of a handler, its visible   *)
(* input_events and its sub-handlers, is kept in a heap.  The handler      *)
(* classes other than KeyHandler are as the pipeline description has them: *)
(* a combination handler needs ranking and ranks by its combination, a     *)
(* hierarchy handler has the shared event as its one input event, and      *)
(* set_occluded_input_event takes the event out of input_events.  "plain"  *)
(* stands for an output handler that needs neither wrapping nor ranking.   *)
(* A preset has one mapping per combination.                               *)
(***************************************************************************)
MaxPipeMappings == 3   \* mappings of the preset

PipeCombinations ==
    {<<"a">>, <<"b">>, <<"a", "b">>, <<"b", "a">>, <<"b", "c">>, <<"a", "b", "c">>}

PipePresets ==
    {p \in UNION {[1..n -> [combination : PipeCombinations, kind : {"key", "plain"}]] :
                     n \in 1..MaxPipeMappings} :
        \A i, j \in DOMAIN p : p[i].combination = p[j].combination => i = j}

Hid(k, n, e) == [k |-> k, n |-> n, e |-> e]

Obj(input_events, sub) == [input_events |-> input_events, sub |-> sub]

Put(heap, h, obj) == (h :> obj) @@ heap

NoPipelines == [e \in OrderEvents |-> <<>>]

\* KeyHandler.needs_wrapping; the other classes of the model wrap nothing
needs_wrapping(h) == h.k = "key"

\* KeyHandler.wrap_with: {self.input_events: HandlerEnums.combination}
wrap_with(heap, h) == [combination |-> heap[h].input_events, enum |-> "combination"]

needs_ranking(h) == h.k = "combination"

rank_by(heap, h) == heap[h].input_events

set_occluded_input_event(input_events, event) ==
    SelectSeq(input_events, LAMBDA x : x # event)

RECURSIVE OccludeAll(_, _, _)
OccludeAll(heap, h, combination) ==
    IF combination = <<>> THEN heap
    ELSE OccludeAll([heap EXCEPT ![h].input_events =
                         set_occluded_input_event(@, Head(combination))],
                    h, Tail(combination))

\* _create_event_pipeline: the handlers it returns and the heap after it
RECURSIVE _create_event_pipeline(_, _, _)
_create_event_pipeline(heap, handler, ignore_ranking) ==
    IF ~needs_wrapping(handler) \/ (needs_ranking(handler) /\ ~ignore_ranking)
    THEN [heap |-> heap, handlers |-> <<handler>>]
    ELSE LET wrap == wrap_with(heap, handler)
             super_handler == Hid(wrap.enum, handler.n, "")
             made == Put(heap, super_handler, Obj(wrap.combination, <<handler>>))
             hidden == OccludeAll(made, handler, wrap.combination)
             above == _create_event_pipeline(hidden, super_handler, FALSE)
         IN [heap |-> above.heap,
             handlers |-> IF above.heap[handler].input_events # <<>>
                          THEN Append(above.handlers, handler)
                          ELSE above.handlers]

\* a list that is overwritten with the handlers of the last mapping
Replaced(list, more) == more

\* handlers.extend(...)
Extended(list, more) == list \o more

\* list.remove: without the first h
RECURSIVE Without(_, _)
Without(list, h) ==
    IF list = <<>> THEN <<>>
    ELSE IF Head(list) = h THEN Tail(list)
    ELSE <<Head(list)>> \o Without(Tail(list), h)

\* need_ranking[combination] = handler, for a dict kept as the list of its
\* items in the order of insertion
dict_set(d, key, value) ==
    IF \E i \in DOMAIN d : d[i].key = key
    THEN [i \in DOMAIN d |-> IF d[i].key = key THEN [key |-> key, value |-> value]
                             ELSE d[i]]
    ELSE Append(d, [key |-> key, value |-> value])

dict_keys(d) == [i \in DOMAIN d |-> d[i].key]

dict_get(d, key) == d[CHOOSE i \in DOMAIN d : d[i].key = key].value

\* the loop over handlers.copy() that takes out the handlers to rank
RECURSIVE CollectRanked(_, _, _)
CollectRanked(heap, copy, st) ==
    IF copy = <<>> THEN st
    ELSE IF needs_ranking(Head(copy))
    THEN CollectRanked(heap, Tail(copy),
             [handlers |-> Without(st.handlers, Head(copy)),
              need_ranking |-> dict_set(st.need_ranking, rank_by(heap, Head(copy)),
                                        Head(copy))])
    ELSE CollectRanked(heap, Tail(copy), st)

EventsOf(all_combinations) ==
    UNION {Elements(all_combinations[i]) : i \in DOMAIN all_combinations}

combinations_with_event(all_combinations, event) ==
    SelectSeq(all_combinations, LAMBDA c : event \in Elements(c))

\* a parser that makes a hierarchy handler for every event
NoCombinationAlone(with_event) == FALSE

\* len(combinations_with_event) == 1
OnlyCombination(with_event) == Len(with_event) = 1

OccludeOn(heap, sub_handlers, event) ==
    [h \in DOMAIN heap |->
        IF h \in Elements(sub_handlers)
        THEN [heap[h] EXCEPT !.input_events = set_occluded_input_event(@, event)]
        ELSE heap[h]]

\* the loop `for event in events` of _create_hierarchy_handlers, with the
\* events in the order of the iteration
RECURSIVE _create_hierarchy_handlers(_, _, _)
_create_hierarchy_handlers(ranking, events, st) ==
    IF events = <<>> THEN st
    ELSE LET event == Head(events)
             with_event == combinations_with_event(dict_keys(ranking), event)
         IN IF OnlyCombination(with_event)
            THEN _create_hierarchy_handlers(ranking, Tail(events),
                     [st EXCEPT !.sorted_handlers =
                                    @ \cup {dict_get(ranking, with_event[1])}])
            ELSE LET in_order == _order_combinations(with_event, event)
                     sub_handlers == [i \in DOMAIN in_order |->
                                         dict_get(ranking, in_order[i])]
                     hierarchy == Hid("hierarchy", st.made + 1, event)
                 IN _create_hierarchy_handlers(ranking, Tail(events),
                        [heap |-> OccludeOn(Put(st.heap, hierarchy,
                                                Obj(<<event>>, sub_handlers)),
                                            sub_handlers, event),
                         sorted_handlers |-> st.sorted_handlers \cup {hierarchy},
                         made |-> st.made + 1])

\* `for handler in ranked_handlers: handlers.extend(_create_event_pipeline(...))`
RECURSIVE ExtendRanked(_, _, _)
ExtendRanked(heap, ranked, list) ==
    IF ranked = <<>> THEN [heap |-> heap, handlers |-> list]
    ELSE LET made == _create_event_pipeline(heap, Head(ranked), TRUE)
         IN ExtendRanked(made.heap, Tail(ranked), Extended(list, made.handlers))

\* a list that grows at its front
PutFirst(list, handler) == <<handler>> \o list

\* event_pipelines[event].append(handler), or the new list [handler]
PutLast(list, handler) == Append(list, handler)

\* the loop that fills event_pipelines
RECURSIVE Assemble(_, _, _)
Assemble(heap, list, pipelines) ==
    IF list = <<>> THEN pipelines
    ELSE Assemble(heap, Tail(list),
             [e \in OrderEvents |->
                 IF e \in Elements(heap[Head(list)].input_events)
                 THEN PutLast(pipelines[e], Head(list))
                 ELSE pipelines[e]])

PipeInit ==
    /\ pl_preset \in PipePresets
    /\ pl_pc = "mappings"
    /\ pl_next = 1
    /\ pl_heap = <<>>
    /\ pl_handlers = <<>>
    /\ pl_need_ranking = <<>>
    /\ pl_ranked = {}
    /\ pl_pipelines = NoPipelines

PipeIdle ==
    /\ pl_preset = <<>>
    /\ pl_pc = "mappings"
    /\ pl_next = 1
    /\ pl_heap = <<>>
    /\ pl_handlers = <<>>
    /\ pl_need_ranking = <<>>
    /\ pl_ranked = {}
    /\ pl_pipelines = NoPipelines

MoreIdle == ClassIdle /\ PairIdle /\ DmIdle /\ LoopIdle /\ PipeIdle

RestIdle == CapsIdle /\ CombIdle /\ GuiIdle /\ MoreIdle

CombNotify ==
    /\ \E e \in CombEvents, value \in {0, 1} :
        /\ comb_call' = [called |-> TRUE, event |-> e, value |-> value]
        /\ IF e \notin Required
           THEN UNCHANGED <<comb_pressed, comb_output, comb_sub>>
           ELSE LET pressed_keys == [comb_pressed EXCEPT ![e] = (value = 1)]
                    active == get_active(pressed_keys)
                IN /\ comb_pressed' = pressed_keys
                   /\ IF Fires(active, comb_output)
                      THEN /\ Len(comb_sub) < MaxFired
                           /\ comb_output' = active
                           /\ comb_sub' = Append(comb_sub, IF active THEN 1 ELSE 0)
                      ELSE UNCHANGED <<comb_output, comb_sub>>
    /\ UNCHANGED <<macroVars, readerVars, parserVars, handlerVars, capsVars, guiVars, moreVars>>

CombNext == CombNotify

\* self.capabilities[type].add(code), by a task of macro m that runs
AddCapability ==
    /\ cap_adds < MaxAdds
    /\ \E m \in MacroIds, c \in AddedCodes :
        /\ c[2] \notin capabilities[m][c[1]]
        /\ capabilities' = [capabilities EXCEPT ![m][c[1]] = @ \cup {c[2]}]
    /\ cap_adds' = cap_adds + 1
    /\ cap_call' = cap_call
    /\ UNCHANGED <<macroVars, readerVars, parserVars, handlerVars, combVars, guiVars, moreVars>>

GetCapabilities ==
    /\ \E m \in MacroIds :
        LET r == get_capabilities(capabilities, m) IN
        /\ capabilities' = r.caps
        /\ cap_call' = [called |-> TRUE, m |-> m, result |-> r.result,
                        before |-> capabilities, after |-> r.caps]
    /\ cap_adds' = cap_adds
    /\ UNCHANGED <<macroVars, readerVars, parserVars, handlerVars, combVars, guiVars, moreVars>>

CapsNext ==
    \/ AddCapability
    \/ GetCapabilities

\* Controller.create_mapping
CreateMapping ==
    LET had == taken(active_preset, empty_combination)
        created == IF had THEN active_preset ELSE add(active_preset, UIMapping)
        defaults == [created EXCEPT
                        ![empty_combination].target_uinput = MAPPING_DEFAULTS]
    IN /\ active_preset' = defaults
       /\ active_mapping' = empty_combination
       /\ bus' = (IF had THEN <<>> ELSE _send_preset(created))
                 \o _send_mapping(created, empty_combination)
                 \o _send_mapping(defaults, empty_combination)
       /\ gui_call' = GuiCall("create_mapping", NoMapping)
       /\ UNCHANGED <<button_left_warn, result_timers, applied>>
       /\ UNCHANGED <<macroVars, readerVars, parserVars, handlerVars,
                      capsVars, combVars, moreVars>>

\* DataManager.update_mapping(event_combination=combination), then save
UpdateCombination ==
    /\ \E combination \in Combinations :
        /\ IF active_mapping = NoMapping
           THEN \* DataManagementError, not caught
                /\ gui_call' = [GuiCall("update_combination", combination)
                                    EXCEPT !.raised = TRUE]
                /\ bus' = <<>>
                /\ UNCHANGED <<active_preset, active_mapping>>
           ELSE IF combination # active_mapping
                   /\ taken(active_preset, combination)
           THEN \* KeyError: the combination was a duplicate
                /\ gui_call' = GuiCall("update_combination", combination)
                /\ bus' = <<>>
                /\ UNCHANGED <<active_preset, active_mapping>>
           ELSE LET moved == move(active_preset, active_mapping, combination)
                IN /\ gui_call' = GuiCall("update_combination", combination)
                   /\ active_preset' = moved
                   /\ active_mapping' = combination
                   /\ bus' = (IF Announces(active_mapping, combination)
                              THEN <<CombinationUpdate(active_mapping,
                                                       combination)>>
                              ELSE <<>>)
                             \o _send_mapping(moved, combination)
    /\ UNCHANGED <<button_left_warn, result_timers, applied>>
    /\ UNCHANGED <<macroVars, readerVars, parserVars, handlerVars,
                   capsVars, combVars, moreVars>>

\* Controller.update_mapping(output_symbol=symbol)
UpdateMapping ==
    /\ \E symbol \in Symbols :
        /\ gui_call' = [GuiCall("update_mapping", NoMapping)
                            EXCEPT !.raised = (active_mapping = NoMapping)]
        /\ IF active_mapping = NoMapping
           THEN \* DataManagementError
                /\ bus' = <<>>
                /\ UNCHANGED active_preset
           ELSE LET updated == [active_preset EXCEPT
                                   ![active_mapping].output_symbol = symbol]
                IN /\ active_preset' = updated
                   /\ bus' = _send_mapping(updated, active_mapping)
    /\ UNCHANGED <<active_mapping, button_left_warn, result_timers, applied>>
    /\ UNCHANGED <<macroVars, readerVars, parserVars, handlerVars,
                   capsVars, combVars, moreVars>>

\* Controller.load_mapping
LoadMapping ==
    /\ \E combination \in Combinations :
        /\ gui_call' = [GuiCall("load_mapping", combination)
                            EXCEPT !.raised = ~taken(active_preset, combination)]
        /\ IF taken(active_preset, combination)
           THEN /\ active_mapping' = combination
                /\ bus' = _send_mapping(active_preset, combination)
           ELSE \* KeyError
                /\ bus' = <<>>
                /\ UNCHANGED active_mapping
    /\ UNCHANGED <<active_preset, button_left_warn, result_timers, applied>>
    /\ UNCHANGED <<macroVars, readerVars, parserVars, handlerVars,
                   capsVars, combVars, moreVars>>

\* Controller.delete_mapping; accept is the answer of the confirm dialog
DeleteMapping ==
    /\ \E accept \in BOOLEAN :
        IF DOMAIN active_preset # {} /\ ~accept
        THEN /\ gui_call' = GuiCall("delete_mapping", NoMapping)
             /\ bus' = <<>>
             /\ UNCHANGED <<active_preset, active_mapping>>
        ELSE IF active_mapping = NoMapping
        THEN \* DataManagementError
             /\ gui_call' = [GuiCall("delete_mapping", NoMapping)
                                EXCEPT !.raised = TRUE]
             /\ bus' = <<>>
             /\ UNCHANGED <<active_preset, active_mapping>>
        ELSE LET removed == remove(active_preset, active_mapping)
             IN /\ gui_call' = GuiCall("delete_mapping", NoMapping)
                /\ active_preset' = removed
                /\ active_mapping' = NoMapping
                /\ bus' = _send_preset(removed)
    /\ UNCHANGED <<button_left_warn, result_timers, applied>>
    /\ UNCHANGED <<macroVars, readerVars, parserVars, handlerVars,
                   capsVars, combVars, moreVars>>

\* Controller.start_injecting; ok is the answer of the daemon
StartInjecting ==
    /\ result_timers < MaxTimers
    /\ applied' = IF applied < 3 THEN applied + 1 ELSE applied
    /\ \E ok \in BOOLEAN :
        LET call == [GuiCall("start_injecting", NoMapping)
                        EXCEPT !.nr = applied']
        IN IF DOMAIN active_preset = {}
           THEN /\ gui_call' = call
                /\ bus' = <<StatusData("CTX_ERROR",
                                       "You need to add keys and save first",
                                       <<>>)>>
                /\ UNCHANGED <<button_left_warn, result_timers>>
           ELSE IF Warns(button_left_warn, active_preset)
           THEN /\ gui_call' = call
                /\ bus' = <<BtnLeftWarning>>
                /\ button_left_warn' = TRUE
                /\ UNCHANGED result_timers
           ELSE /\ gui_call' = [call EXCEPT !.started = TRUE]
                /\ button_left_warn' = FALSE
                /\ bus' = IF ok
                          THEN <<StatusData("CTX_APPLY", "Starting injection...",
                                            <<>>)>>
                          ELSE <<StatusData("CTX_APPLY", "Failed to apply preset",
                                            <<>>)>>
                /\ result_timers' = result_timers + 1
    /\ UNCHANGED <<active_preset, active_mapping>>
    /\ UNCHANGED <<macroVars, readerVars, parserVars, handlerVars,
                   capsVars, combVars, moreVars>>

InjectorStates == {"RUNNING", "FAILED", "NO_GRAB", "UPGRADE_EVDEV", "STARTING"}

\* Controller.show_injection_result, called by the timeout until it
\* returns False
ShowInjectionResult ==
    /\ result_timers > 0
    /\ \E state \in InjectorStates :
        /\ gui_call' = GuiCall("show_injection_result", NoMapping)
        /\ IF state = "STARTING"
           THEN /\ bus' = <<>>
                /\ UNCHANGED result_timers
           ELSE /\ result_timers' = result_timers - 1
                /\ bus' =
                    IF state = "RUNNING"
                    THEN IF taken(active_preset, btn_left)
                         THEN <<StatusData("CTX_APPLY",
                                    "Applied preset, CTRL + DEL to stop", <<>>)>>
                         ELSE <<StatusData("CTX_APPLY", "Applied preset", <<>>)>>
                    ELSE IF state = "FAILED"
                    THEN <<StatusData("CTX_ERROR", "Failed to apply preset",
                                      <<>>)>>
                    ELSE IF state = "NO_GRAB"
                    THEN <<StatusData("CTX_ERROR", "The device was not grabbed",
                                      <<"Either another application is already grabbing it">>)>>
                    ELSE <<StatusData("CTX_ERROR", "Upgrade python-evdev",
                                      <<"Your python-evdev version is too old.">>)>>
    /\ UNCHANGED <<active_preset, active_mapping, button_left_warn, applied>>
    /\ UNCHANGED <<macroVars, readerVars, parserVars, handlerVars,
                   capsVars, combVars, moreVars>>

GuiNext ==
    \/ CreateMapping
    \/ UpdateCombination
    \/ UpdateMapping
    \/ LoadMapping
    \/ DeleteMapping
    \/ StartInjecting
    \/ ShowInjectionResult

InitGui ==
    /\ GuiInit
    /\ MoreIdle
    /\ CapsIdle
    /\ CombIdle
    /\ MacroInit
    /\ prog = 1
    /\ ReaderInit
    /\ reader_listeners = {}
    /\ callbacks[<<"EV_KEY", "KEY_A">>] = 0
    /\ ParserIdle
    /\ HandlerIdle

\* parse_mappings calls _get_output_handler(mapping)
GetOutputHandler ==
    /\ classified.result = "not called"
    /\ classified' = [classified EXCEPT !.result = _get_output_handler(classified.mapping)]
    /\ UNCHANGED <<oldVars, pairVars, dmVars, loopVars, pipeVars>>

ClassNext == GetOutputHandler

\* an event of the axis goes through the pipeline: notify of both handlers
PairNotify ==
    /\ \E event_value \in AxisValues(abs_pair.range) :
        LET trigger_points ==
                [h \in {1, 2} |-> _trigger_point(abs_pair.range[1], abs_pair.range[2],
                                                 abs_pair.percents[h])]
            value == [h \in {1, 2} |-> AsKey(event_value, trigger_points[h],
                                             abs_pair.percents[h])]
        IN abs_pair' = [abs_pair EXCEPT
                !.active = [h \in {1, 2} |->
                               IF StateChanges(value[h], abs_pair.active[h])
                               THEN value[h] # 0
                               ELSE abs_pair.active[h]],
                !.call = [called |-> TRUE, value |-> event_value,
                          trigger_points |-> trigger_points]]
    /\ UNCHANGED <<oldVars, classVars, dmVars, loopVars, pipeVars>>

PairNext == PairNotify

\* an operation that raised: nothing was assigned
Rejected(op, arg, error) ==
    /\ dm_call' = DmCall(op, arg, error)
    /\ UNCHANGED <<dm_group, dm_preset, dm_mapping, dm_files, dm_autoload>>

\* _active_preset = None
ForgetsPreset(p) == NoPreset

\* a data manager that keeps the mapping it had
KeepsMapping(mapping) == mapping

\* _active_mapping = None
ForgetsMapping(mapping) == NoMapping

\* DataManager.load_group
DmLoadGroup ==
    \E key \in GroupKeys :
        /\ IF key \notin Groups
           THEN Rejected("load_group", key, "DataManagementError")
           ELSE /\ dm_mapping' = ForgetsMapping(dm_mapping)
                /\ dm_preset' = ForgetsPreset(dm_preset)
                /\ dm_group' = key
                /\ dm_call' = DmCall("load_group", key, "")
                /\ UNCHANGED <<dm_files, dm_autoload>>
        /\ UNCHANGED <<oldVars, classVars, pairVars, loopVars, pipeVars>>

\* DataManager.load_preset; a preset without a file either fails to load or
\* is loaded empty
DmLoadPreset ==
    \E name \in PresetNames, loaded \in SUBSET DmCombinations :
        /\ \/ /\ dm_group = NoGroup
              /\ Rejected("load_preset", name, "DataManagementError")
           \/ /\ dm_group # NoGroup
              /\ name \notin dm_files[dm_group]
              /\ Rejected("load_preset", name, "FileNotFoundError")
           \/ /\ dm_group # NoGroup
              /\ name \notin dm_files[dm_group] => loaded = {}
              /\ dm_mapping' = ForgetsMapping(dm_mapping)
              /\ dm_preset' = [name |-> name, mappings |-> loaded]
              /\ dm_call' = DmCall("load_preset", name, "")
              /\ UNCHANGED <<dm_group, dm_files, dm_autoload>>
        /\ UNCHANGED <<oldVars, classVars, pairVars, loopVars, pipeVars>>

\* DataManager.load_mapping
DmLoadMapping ==
    \E combination \in DmCombinations :
        /\ IF dm_preset = NoPreset
           THEN Rejected("load_mapping", combination, "DataManagementError")
           ELSE IF combination \notin dm_preset.mappings
           THEN Rejected("load_mapping", combination, "KeyError")
           ELSE /\ dm_mapping' = combination
                /\ dm_call' = DmCall("load_mapping", combination, "")
                /\ UNCHANGED <<dm_group, dm_preset, dm_files, dm_autoload>>
        /\ UNCHANGED <<oldVars, classVars, pairVars, loopVars, pipeVars>>

\* DataManager.rename_preset
DmRenamePreset ==
    \E name \in PresetNames :
        /\ IF dm_preset = NoPreset
           THEN Rejected("rename_preset", name, "DataManagementError")
           ELSE IF name = dm_preset.name
           THEN /\ dm_call' = DmCall("rename_preset", name, "")
                /\ UNCHANGED <<dm_group, dm_preset, dm_mapping, dm_files, dm_autoload>>
           ELSE IF name \in dm_files[dm_group]
           THEN Rejected("rename_preset", name, "ValueError")
           ELSE IF dm_preset.name \notin dm_files[dm_group]
           THEN Rejected("rename_preset", name, "FileNotFoundError")
           ELSE /\ dm_files' = Saved(Removed(dm_files, dm_group, dm_preset.name),
                                     dm_group, name)
                /\ dm_autoload' = IF dm_autoload[dm_group] = dm_preset.name
                                  THEN set_autoload_preset(dm_autoload, dm_group, name)
                                  ELSE dm_autoload
                /\ dm_preset' = [dm_preset EXCEPT !.name = name]
                /\ dm_call' = DmCall("rename_preset", name, "")
                /\ UNCHANGED <<dm_group, dm_mapping>>
        /\ UNCHANGED <<oldVars, classVars, pairVars, loopVars, pipeVars>>

\* DataManager.copy_preset
DmCopyPreset ==
    \E name \in PresetNames :
        /\ IF dm_preset = NoPreset
           THEN Rejected("copy_preset", name, "DataManagementError")
           ELSE IF name = dm_preset.name
           THEN /\ dm_call' = DmCall("copy_preset", name, "")
                /\ UNCHANGED <<dm_group, dm_preset, dm_mapping, dm_files, dm_autoload>>
           ELSE IF name \in dm_files[dm_group]
           THEN Rejected("copy_preset", name, "ValueError")
           ELSE /\ dm_preset' = [dm_preset EXCEPT !.name = name]
                /\ dm_files' = Saved(dm_files, dm_group, name)
                /\ dm_call' = DmCall("copy_preset", name, "")
                /\ UNCHANGED <<dm_group, dm_mapping, dm_autoload>>
        /\ UNCHANGED <<oldVars, classVars, pairVars, loopVars, pipeVars>>

\* DataManager.create_preset
DmCreatePreset ==
    \E name \in PresetNames :
        /\ IF dm_group = NoGroup
           THEN Rejected("create_preset", name, "DataManagementError")
           ELSE IF name \in dm_files[dm_group]
           THEN Rejected("create_preset", name, "DataManagementError")
           ELSE /\ dm_files' = Saved(dm_files, dm_group, name)
                /\ dm_call' = DmCall("create_preset", name, "")
                /\ UNCHANGED <<dm_group, dm_preset, dm_mapping, dm_autoload>>
        /\ UNCHANGED <<oldVars, classVars, pairVars, loopVars, pipeVars>>

\* DataManager.delete_preset
DmDeletePreset ==
    /\ IF dm_preset = NoPreset
       THEN Rejected("delete_preset", 0, "AttributeError")
       ELSE IF dm_preset.name \notin dm_files[dm_group]
       THEN Rejected("delete_preset", 0, "FileNotFoundError")
       ELSE /\ dm_files' = Removed(dm_files, dm_group, dm_preset.name)
            /\ dm_mapping' = ForgetsMapping(dm_mapping)
            /\ dm_preset' = ForgetsPreset(dm_preset)
            /\ dm_call' = DmCall("delete_preset", 0, "")
            /\ UNCHANGED <<dm_group, dm_autoload>>
    /\ UNCHANGED <<oldVars, classVars, pairVars, loopVars, pipeVars>>

\* DataManager.update_mapping(event_combination=combination)
DmUpdateMapping ==
    \E combination \in DmCombinations :
        /\ IF dm_mapping = NoMapping
           THEN Rejected("update_mapping", combination, "DataManagementError")
           ELSE IF combination # dm_mapping /\ combination \in dm_preset.mappings
           THEN Rejected("update_mapping", combination, "KeyError")
           ELSE /\ dm_preset' = [dm_preset EXCEPT
                                    !.mappings = (@ \ {dm_mapping}) \cup {combination}]
                /\ dm_mapping' = combination
                /\ dm_call' = DmCall("update_mapping", combination, "")
                /\ UNCHANGED <<dm_group, dm_files, dm_autoload>>
        /\ UNCHANGED <<oldVars, classVars, pairVars, loopVars, pipeVars>>

\* DataManager.create_mapping
DmCreateMapping ==
    /\ IF dm_preset = NoPreset
       THEN Rejected("create_mapping", 0, "DataManagementError")
       ELSE IF empty_combination \in dm_preset.mappings
       THEN Rejected("create_mapping", 0, "KeyError")
       ELSE /\ dm_preset' = [dm_preset EXCEPT !.mappings = @ \cup {empty_combination}]
            /\ dm_mapping' = empty_combination
            /\ dm_call' = DmCall("create_mapping", 0, "")
            /\ UNCHANGED <<dm_group, dm_files, dm_autoload>>
    /\ UNCHANGED <<oldVars, classVars, pairVars, loopVars, pipeVars>>

\* DataManager.delete_mapping
DmDeleteMapping ==
    /\ IF dm_mapping = NoMapping
       THEN Rejected("delete_mapping", 0, "DataManagementError")
       ELSE /\ dm_preset' = [dm_preset EXCEPT !.mappings = @ \ {dm_mapping}]
            /\ dm_mapping' = ForgetsMapping(dm_mapping)
            /\ dm_call' = DmCall("delete_mapping", 0, "")
            /\ UNCHANGED <<dm_group, dm_files, dm_autoload>>
    /\ UNCHANGED <<oldVars, classVars, pairVars, loopVars, pipeVars>>

\* DataManager.set_autoload
DmSetAutoload ==
    \E status \in BOOLEAN :
        /\ IF dm_preset = NoPreset
           THEN Rejected("set_autoload", IF status THEN 1 ELSE 0, "DataManagementError")
           ELSE /\ dm_autoload' =
                      IF status
                      THEN set_autoload_preset(dm_autoload, dm_group, dm_preset.name)
                      ELSE IF get_autoload(dm_autoload[dm_group], dm_preset.name)
                      THEN set_autoload_preset(dm_autoload, dm_group, NoName)
                      ELSE dm_autoload
                /\ dm_call' = DmCall("set_autoload", IF status THEN 1 ELSE 0, "")
                /\ UNCHANGED <<dm_group, dm_preset, dm_mapping, dm_files>>
        /\ UNCHANGED <<oldVars, classVars, pairVars, loopVars, pipeVars>>

\* DataManager.save
DmSave ==
    /\ dm_files' = IF dm_preset = NoPreset THEN dm_files
                   ELSE Saved(dm_files, dm_group, dm_preset.name)
    /\ dm_call' = DmCall("save", 0, "")
    /\ UNCHANGED <<dm_group, dm_preset, dm_mapping, dm_autoload>>
    /\ UNCHANGED <<oldVars, classVars, pairVars, loopVars, pipeVars>>

DmNext ==
    \/ DmLoadGroup
    \/ DmLoadPreset
    \/ DmLoadMapping
    \/ DmRenamePreset
    \/ DmCopyPreset
    \/ DmCreatePreset
    \/ DmDeletePreset
    \/ DmUpdateMapping
    \/ DmCreateMapping
    \/ DmDeleteMapping
    \/ DmSetAutoload
    \/ DmSave

InitData ==
    /\ DmInit
    /\ ClassIdle
    /\ PairIdle
    /\ LoopIdle
    /\ PipeIdle
    /\ GuiIdle
    /\ CapsIdle
    /\ CombIdle
    /\ MacroInit
    /\ prog = 1
    /\ ReaderInit
    /\ reader_listeners = {}
    /\ callbacks[<<"EV_KEY", "KEY_A">>] = 0
    /\ ParserIdle
    /\ HandlerIdle

SpecData == InitData /\ [][DmNext]_vars

LoopHead(k) == el_ready # <<>> /\ Head(el_ready).k = k

\* send_to_listeners: the next listener and asyncio.sleep(0), or on to
\* send_to_handlers and asyncio.gather
LoopSendToListeners ==
    /\ LoopHead("reader")
    /\ el_reader.pc = "listeners"
    /\ IF el_reader.idx < Len(el_cfg.listeners)
       THEN /\ el_ready' = Tail(el_ready) \o
                    <<LoopTask(el_cfg.listeners[el_reader.idx + 1], 0),
                      LoopTask("reader", 0)>>
            /\ el_reader' = [el_reader EXCEPT !.idx = @ + 1]
       ELSE /\ el_ready' = Tail(el_ready) \o LoopHandlers(1, Len(el_cfg.handlers))
            /\ el_reader' = [el_reader EXCEPT !.pc = "gather",
                                              !.pending = Len(el_cfg.handlers)]
    /\ UNCHANGED <<el_cfg, el_macro, el_log>>
    /\ UNCHANGED <<oldVars, classVars, pairVars, dmVars, pipeVars>>

\* the listener of if_single is called with the release of the trigger
LoopListenerDone ==
    /\ LoopHead("if_single")
    /\ el_ready' = Append(Tail(el_ready), LoopTask(wait_for(el_cfg), 0))
    /\ UNCHANGED <<el_cfg, el_reader, el_macro, el_log>>
    /\ UNCHANGED <<oldVars, classVars, pairVars, dmVars, pipeVars>>

\* another listener is called
LoopOtherListener ==
    /\ LoopHead("other")
    /\ el_ready' = Tail(el_ready)
    /\ UNCHANGED <<el_cfg, el_reader, el_macro, el_log>>
    /\ UNCHANGED <<oldVars, classVars, pairVars, dmVars, pipeVars>>

\* the task of listener_done.wait() ends, its done callback is made ready
LoopWaitReturns ==
    /\ LoopHead("wait")
    /\ el_ready' = Append(Tail(el_ready), LoopTask("release_waiter", 0))
    /\ UNCHANGED <<el_cfg, el_reader, el_macro, el_log>>
    /\ UNCHANGED <<oldVars, classVars, pairVars, dmVars, pipeVars>>

\* the done callback lets wait_for go on in the macro's task
LoopReleaseWaiter ==
    /\ LoopHead("release_waiter")
    /\ el_ready' = Append(Tail(el_ready), LoopTask("macro", 0))
    /\ UNCHANGED <<el_cfg, el_reader, el_macro, el_log>>
    /\ UNCHANGED <<oldVars, classVars, pairVars, dmVars, pipeVars>>

\* the task of if_single goes on: success is set, then.run(handler)
LoopMacroRuns ==
    /\ LoopHead("macro")
    /\ IF el_macro = "waiting" /\ ~WritesAtOnce(el_cfg)
       THEN /\ el_macro' = IF el_cfg.pause = 0 THEN "resumes" ELSE "pauses"
            /\ el_ready' = IF el_cfg.pause = 0
                           THEN Append(Tail(el_ready), LoopTask("macro", 0))
                           ELSE Tail(el_ready)
            /\ el_log' = el_log
       ELSE /\ el_macro' = "wrote"
            /\ el_log' = Append(el_log, "macro")
            /\ el_ready' = Tail(el_ready)
    /\ UNCHANGED <<el_cfg, el_reader>>
    /\ UNCHANGED <<oldVars, classVars, pairVars, dmVars, pipeVars>>

\* the pause of the macro is over
LoopPauseEnds ==
    /\ el_macro = "pauses"
    /\ el_macro' = "resumes"
    /\ el_ready' = Append(el_ready, LoopTask("macro", 0))
    /\ UNCHANGED <<el_cfg, el_reader, el_log>>
    /\ UNCHANGED <<oldVars, classVars, pairVars, dmVars, pipeVars>>

\* a handler coroutine runs and writes what its mapping says
LoopHandlerRuns ==
    /\ LoopHead("handler")
    /\ el_log' = IF el_cfg.handlers[Head(el_ready).id]
                 THEN Append(el_log, "handler") ELSE el_log
    /\ el_ready' = Append(Tail(el_ready), LoopTask("done_callback", Head(el_ready).id))
    /\ UNCHANGED <<el_cfg, el_reader, el_macro>>
    /\ UNCHANGED <<oldVars, classVars, pairVars, dmVars, pipeVars>>

\* asyncio.gather counts the handler as done; after the last one the
\* reader's task is made ready
LoopGatherCounts ==
    /\ LoopHead("done_callback")
    /\ el_reader' = [el_reader EXCEPT !.pending = @ - 1]
    /\ el_ready' = IF el_reader.pending = 1
                   THEN Append(Tail(el_ready), LoopTask("reader", 0))
                   ELSE Tail(el_ready)
    /\ UNCHANGED <<el_cfg, el_macro, el_log>>
    /\ UNCHANGED <<oldVars, classVars, pairVars, dmVars, pipeVars>>

\* handle after send_to_handlers: forward what no handler took
LoopHandleEnds ==
    /\ LoopHead("reader")
    /\ el_reader.pc = "gather"
    /\ el_log' = IF el_cfg.claimed THEN el_log ELSE Append(el_log, "forward")
    /\ el_reader' = [el_reader EXCEPT !.pc = "done"]
    /\ el_ready' = Tail(el_ready)
    /\ UNCHANGED <<el_cfg, el_macro>>
    /\ UNCHANGED <<oldVars, classVars, pairVars, dmVars, pipeVars>>

LoopNext ==
    \/ LoopSendToListeners
    \/ LoopListenerDone
    \/ LoopOtherListener
    \/ LoopWaitReturns
    \/ LoopReleaseWaiter
    \/ LoopMacroRuns
    \/ LoopPauseEnds
    \/ LoopHandlerRuns
    \/ LoopGatherCounts
    \/ LoopHandleEnds

InitLoop ==
    /\ LoopInit
    /\ DmIdle
    /\ ClassIdle
    /\ PairIdle
    /\ PipeIdle
    /\ GuiIdle
    /\ CapsIdle
    /\ CombIdle
    /\ MacroInit
    /\ prog = 1
    /\ ReaderInit
    /\ reader_listeners = {}
    /\ callbacks[<<"EV_KEY", "KEY_A">>] = 0
    /\ ParserIdle
    /\ HandlerIdle

SpecLoop == InitLoop /\ [][LoopNext]_vars

\* one turn of `for mapping in preset`: the output handler and its wrappers
PipeMapping ==
    /\ pl_pc = "mappings"
    /\ pl_next <= Len(pl_preset)
    /\ LET mapping == pl_preset[pl_next]
           output_handler == Hid(mapping.kind, pl_next, "")
           made == _create_event_pipeline(
                       Put(pl_heap, output_handler, Obj(mapping.combination, <<>>)),
                       output_handler, FALSE)
       IN /\ pl_heap' = made.heap
          /\ pl_handlers' = Extended(pl_handlers, made.handlers)
    /\ pl_next' = pl_next + 1
    /\ UNCHANGED <<pl_preset, pl_pc, pl_need_ranking, pl_ranked, pl_pipelines>>
    /\ UNCHANGED <<oldVars, classVars, pairVars, dmVars, loopVars>>

\* the handlers that need ranking are taken out of the list
PipeCollect ==
    /\ pl_pc = "mappings"
    /\ pl_next > Len(pl_preset)
    /\ LET st == CollectRanked(pl_heap, pl_handlers,
                               [handlers |-> pl_handlers, need_ranking |-> <<>>])
       IN /\ pl_handlers' = st.handlers
          /\ pl_need_ranking' = st.need_ranking
    /\ pl_pc' = "collected"
    /\ UNCHANGED <<pl_preset, pl_next, pl_heap, pl_ranked, pl_pipelines>>
    /\ UNCHANGED <<oldVars, classVars, pairVars, dmVars, loopVars>>

\* ranked_handlers = _create_hierarchy_handlers(need_ranking); the set of
\* events is gone through in some order
PipeHierarchy ==
    /\ pl_pc = "collected"
    /\ \E events \in OrdersOf(EventsOf(dict_keys(pl_need_ranking))) :
         LET st == _create_hierarchy_handlers(pl_need_ranking, events,
                       [heap |-> pl_heap, sorted_handlers |-> {}, made |-> 0])
         IN /\ pl_heap' = st.heap
            /\ pl_ranked' = st.sorted_handlers
    /\ pl_pc' = "ranked"
    /\ UNCHANGED <<pl_preset, pl_next, pl_handlers, pl_need_ranking, pl_pipelines>>
    /\ UNCHANGED <<oldVars, classVars, pairVars, dmVars, loopVars>>

\* the ranked handlers, in the order in which the set gives them, are
\* wrapped and added to the list, and the pipelines are put together
PipeReturn ==
    /\ pl_pc = "ranked"
    /\ \E ranked \in OrdersOf(pl_ranked) :
         LET st == ExtendRanked(pl_heap, ranked, pl_handlers)
         IN /\ pl_heap' = st.heap
            /\ pl_handlers' = st.handlers
            /\ pl_pipelines' = Assemble(st.heap, st.handlers, NoPipelines)
    /\ pl_pc' = "returned"
    /\ UNCHANGED <<pl_preset, pl_next, pl_need_ranking, pl_ranked>>
    /\ UNCHANGED <<oldVars, classVars, pairVars, dmVars, loopVars>>

PipeNext ==
    \/ PipeMapping
    \/ PipeCollect
    \/ PipeHierarchy
    \/ PipeReturn

InitPipe ==
    /\ PipeInit
    /\ LoopIdle
    /\ DmIdle
    /\ ClassIdle
    /\ PairIdle
    /\ GuiIdle
    /\ CapsIdle
    /\ CombIdle
    /\ MacroInit
    /\ prog = 1
    /\ ReaderInit
    /\ reader_listeners = {}
    /\ callbacks[<<"EV_KEY", "KEY_A">>] = 0
    /\ ParserIdle
    /\ HandlerIdle

SpecPipe == InitPipe /\ [][PipeNext]_vars

InitPair ==
    /\ PairInit
    /\ ClassIdle
    /\ DmIdle
    /\ LoopIdle
    /\ PipeIdle
    /\ GuiIdle
    /\ CapsIdle
    /\ CombIdle
    /\ MacroInit
    /\ prog = 1
    /\ ReaderInit
    /\ reader_listeners = {}
    /\ callbacks[<<"EV_KEY", "KEY_A">>] = 0
    /\ ParserIdle
    /\ HandlerIdle

InitClass ==
    /\ ClassInit
    /\ PairIdle
    /\ DmIdle
    /\ LoopIdle
    /\ PipeIdle
    /\ GuiIdle
    /\ CapsIdle
    /\ CombIdle
    /\ MacroInit
    /\ prog = 1
    /\ ReaderInit
    /\ reader_listeners = {}
    /\ callbacks[<<"EV_KEY", "KEY_A">>] = 0
    /\ ParserIdle
    /\ HandlerIdle

InitComb ==
    /\ CombInit
    /\ CapsIdle
    /\ GuiIdle
    /\ MoreIdle
    /\ MacroInit
    /\ prog = 1
    /\ ReaderInit
    /\ reader_listeners = {}
    /\ callbacks[<<"EV_KEY", "KEY_A">>] = 0
    /\ ParserIdle
    /\ HandlerIdle

InitCaps ==
    /\ MacroInit
    /\ prog \in CapPrograms
    /\ CapsInit
    /\ CombIdle
    /\ GuiIdle
    /\ MoreIdle
    /\ ReaderInit
    /\ reader_listeners = {}
    /\ callbacks[<<"EV_KEY", "KEY_A">>] = 0
    /\ ParserIdle
    /\ HandlerIdle

InitMacro ==
    /\ RestIdle
    /\ MacroInit
    /\ ReaderInit
    /\ reader_listeners = {}
    /\ callbacks[<<"EV_KEY", "KEY_A">>] = 0
    /\ ParserIdle
    /\ HandlerIdle

InitReader ==
    /\ RestIdle
    /\ ReaderInit
    /\ MacroInit
    /\ prog = 1
    /\ ParserIdle
    /\ HandlerIdle

InitParser ==
    /\ RestIdle
    /\ ParserInit
    /\ MacroInit
    /\ prog = 1
    /\ ReaderInit
    /\ reader_listeners = {}
    /\ callbacks[<<"EV_KEY", "KEY_A">>] = 0
    /\ HandlerIdle

InitAbs ==
    /\ RestIdle
    /\ AbsInit
    /\ KeyIdle
    /\ MacroInit
    /\ prog = 1
    /\ ReaderInit
    /\ reader_listeners = {}
    /\ callbacks[<<"EV_KEY", "KEY_A">>] = 0
    /\ ParserIdle

InitKey ==
    /\ RestIdle
    /\ KeyInit
    /\ AbsIdle
    /\ MacroInit
    /\ prog = 1
    /\ ReaderInit
    /\ reader_listeners = {}
    /\ callbacks[<<"EV_KEY", "KEY_A">>] = 0
    /\ ParserIdle

InitParse ==
    /\ RestIdle
    /\ ParseInit
    /\ common_event = "b"
    /\ combinations = << <<"b">>, <<"a", "b">> >>
    /\ sorted_combinations = NotCalled
    /\ MacroInit
    /\ prog = 1
    /\ ReaderInit
    /\ reader_listeners = {}
    /\ callbacks[<<"EV_KEY", "KEY_A">>] = 0
    /\ HandlerIdle

SpecCaps == InitCaps /\ [][CapsNext]_vars

SpecComb == InitComb /\ [][CombNext]_vars

SpecGui == InitGui /\ [][GuiNext]_vars

SpecClass == InitClass /\ [][ClassNext]_vars

SpecPair == InitPair /\ [][PairNext]_vars

SpecParser == InitParser /\ [][ParserNext]_vars

SpecParse == InitParse /\ [][ParseNext]_vars

SpecAbs == InitAbs /\ [][AbsNext]_vars

SpecKey == InitKey /\ [][KeyNext]_vars

SpecMacro == InitMacro /\ [][MacroNext]_vars

SpecReader == InitReader /\ [][ReaderNext]_vars

(***************************************************************************)
(* Definitions the properties below are stated with.                       *)
(***************************************************************************)
RECURSIVE Count(_, _)
Count(ws, w) ==
    IF ws = <<>> THEN 0
    ELSE (IF Head(ws) = w THEN 1 ELSE 0) + Count(Tail(ws), w)

OutCodes == {"a", "b", "Shift_L"}

Balanced(ws) == \A c \in OutCodes : Count(ws, <<c, 1>>) = Count(ws, <<c, 0>>)

OnlyOps(ops) ==
    \A m \in MacroIds : \A i \in 1..Len(Tasks(m)) : Tasks(m)[i].op \in ops

RECURSIVE Times(_, _)
Times(n, ws) == IF n = 0 THEN <<>> ELSE ws \o Times(n - 1, ws)

\* what a complete run of a macro of key, modify and repeat(number) tasks writes
RECURSIVE MacroOutput(_)
RECURSIVE TasksOutput(_)
TasksOutput(ts) ==
    IF ts = <<>> THEN <<>>
    ELSE LET t == Head(ts) IN
         (CASE t.op = "key" -> << <<t.code, 1>>, <<t.code, 0>> >>
            [] t.op = "modify" ->
                 << <<t.code, 1>> >> \o MacroOutput(t.child) \o << <<t.code, 0>> >>
            [] t.op = "repeat" -> Times(t.arg.v, MacroOutput(t.child))
            [] OTHER -> <<>>)
         \o TasksOutput(Tail(ts))

MacroOutput(m) == TasksOutput(Tasks(m))

\* ws is a number of whole copies of unit
Whole(ws, unit) ==
    /\ Len(ws) % Len(unit) = 0
    /\ \A j \in 1..Len(ws) : ws[j] = unit[((j - 1) % Len(unit)) + 1]

RECURSIVE Descendants(_)
Descendants(m) ==
    {m} \cup UNION {Descendants(child_macros(m)[j]) : j \in 1..Len(child_macros(m))}

FramesOf(m) == Cardinality({k \in 1..Len(stack) : stack[k].m = m})

(***************************************************************************)
(* C1: when a run of a macro of key, modify, hold and repeat tasks has     *)
(* ended (no run is in progress), every key code was written with value 1  *)
(* as often as with value 0, whenever the trigger was pressed or released  *)
(* and also when runs of child macros were aborted by an error.            *)
(***************************************************************************)
C1_KeysReleasedAfterRun ==
    (stack = <<>> /\ OnlyOps({"key", "modify", "hold", "hold_key", "hold_macro", "repeat"}))
        => Balanced(out)

\* modify(Shift_L, child) has ended after its child was aborted by an error
C1_Witness ==
    /\ prog = 5
    /\ stack = <<>>
    /\ calls > 0
    /\ out = << <<"Shift_L", 1>>, <<"Shift_L", 0>> >>

(***************************************************************************)
(* C2, as the claim states it: no event of type EV_SYN or EV_MSC is        *)
(* written to the forward device, and none reaches a listener or handler.  *)
(***************************************************************************)
SynOrMscType(e) == e.type \in {"EV_SYN", "EV_MSC"}

C2_SynMscNeverForwarded ==
    /\ \A j \in 1..Len(forwarded) : ~SynOrMscType(forwarded[j])
    /\ \A e \in l_notified \cup h_notified : ~SynOrMscType(e)

(***************************************************************************)
(* C2, amended: an event of type EV_SYN or EV_MSC passed to handle reaches *)
(* no listener and no handler, and it is written to the forward device,    *)
(* unchanged and once, like any event no handler claims.                   *)
(***************************************************************************)
RECURSIVE Unclaimed(_)
Unclaimed(done) ==
    IF done = <<>> THEN <<>>
    ELSE (IF Head(done).claimed \/ Head(done).dropped THEN <<>> ELSE <<Head(done).orig>>)
         \o Unclaimed(Tail(done))

SynMscOf(es) == SelectSeq(es, SynOrMscType)

C2_SynMscOnlyForwarded ==
    /\ \A e \in l_notified \cup h_notified : ~SynOrMscType(e)
    /\ \A j \in 1..Len(completed) :
          SynOrMscType(completed[j].orig) =>
              ~completed[j].claimed /\ ~completed[j].dropped
    /\ SynMscOf(forwarded) = SynMscOf(Unclaimed(completed))

\* an EV_SYN event was handled while a listener and a handler for it were
\* registered: it was forwarded and nobody was called with it
C2_Witness ==
    /\ r_pc = "idle"
    /\ reader_listeners # {}
    /\ callbacks[<<"EV_SYN", "SYN_REPORT">>] > 0
    /\ Len(forwarded) = 1
    /\ forwarded[1].type = "EV_SYN"
    /\ l_notified = {}

(***************************************************************************)
(* C3: for every event handle does not drop, either a handler registered   *)
(* for its (type, code) returned true and the event is not forwarded, or   *)
(* none did (also when there is none) and the event is written once to the *)
(* forward device with the type, code and value it was read with, also     *)
(* when a handler changed the event it was called with.                    *)
(***************************************************************************)
C3_ClaimedOrForwarded ==
    /\ forwarded = Unclaimed(completed)
    /\ (r_pc = "idle" /\ completed # <<>> /\ ~Last(completed).dropped) =>
          (Last(completed).claimed <=>
              \E h \in 1..MaxHandlers :
                  /\ h <= callbacks[<<Last(completed).orig.type, Last(completed).orig.code>>]
                  /\ ~SynOrMscType(Last(completed).orig)
                  /\ h_state[h] = "done"
                  /\ h_result[h])

\* the first event was claimed by a handler; the second was forwarded as it
\* was read although its handler had changed the event it was called with
C3_Witness ==
    /\ r_pc = "idle"
    /\ Len(completed) = 2
    /\ completed[1].claimed
    /\ ~completed[2].claimed
    /\ h_state[1] = "done"
    /\ objs[2].code = "KEY_Z"
    /\ forwarded = << [type |-> "EV_KEY", code |-> "KEY_A", value |-> 1] >>

(***************************************************************************)
(* C4: when the callbacks registered for the (type, code) of an event are  *)
(* called with it, every listener of the snapshot taken for that event has *)
(* run with it up to its first suspension point.                           *)
(***************************************************************************)
C4_ListenersBeforeHandlers ==
    (\E h \in DOMAIN h_state : h_state[h] # "none") =>
        \A j \in 1..Len(snapshot) : snapshot[j] \in l_ran

\* two listeners have run and the first handler has just been called
C4_Witness ==
    /\ Len(snapshot) = 2
    /\ l_ran = {1, 2}
    /\ h_state[1] = "ready"
    /\ h_state[2] = "ready"
    /\ r_pc = "gather"

(***************************************************************************)
(* C5, as the claim states it: once the trigger was released during a      *)
(* repetition of the child of hold(child), no further repetition starts.   *)
(***************************************************************************)
AtHoldCheck == InTask("hold_macro") /\ busy /\ Top.l = "start"

RepetitionStarts == AtHoldCheck /\ Len(stack') = Len(stack) + 1

C5_NoRepetitionAfterRelease ==
    [][(AtHoldCheck /\ rel_in_rep) => ~RepetitionStarts]_vars

(***************************************************************************)
(* C5, amended: hold(child) reads the latch between repetitions only.  At  *)
(* such a check a repetition starts exactly when the macro is holding, so  *)
(* after a release during a repetition no further repetition starts unless *)
(* the trigger was pressed again before that repetition ended; a release   *)
(* during a repetition leaves the repetition as it is; and whenever the    *)
(* loop is at its check or the run has ended, the output is a number of    *)
(* whole child sequences, each key pressed as often as released.           *)
(***************************************************************************)
HoldPrograms == {1, 6}

C5_HoldRepeatsWhole ==
    /\ [][AtHoldCheck => (RepetitionStarts <=> ~released[Top.m])]_vars
    /\ [][(RepetitionInProgress /\ released' # released) => stack' = stack]_vars
    /\ []((prog \in HoldPrograms /\ (stack = <<>> \/ AtHoldCheck))
            => (Whole(out, MacroOutput(Tasks(Root)[1].child)) /\ Balanced(out)))

\* hold(modify(Shift_L, key(a))): released during the second repetition, which
\* has ended whole, and the loop is at its check with the trigger released
C5_Witness ==
    /\ prog = 6
    /\ AtHoldCheck
    /\ rel_in_rep
    /\ released[Root]
    /\ Len(out) = 8

(***************************************************************************)
(* C6: in every reachable state, for every macro, exactly one of the       *)
(* trigger-release latch and the trigger-press latch is set.               *)
(***************************************************************************)
C6_LatchesComplementary ==
    \A m \in MacroIds : released[m] # pressed[m]

\* the macro and its child are pressed with KEY_U while a run has written
C6_Witness ==
    /\ pressed[Root]
    /\ ~released[Root]
    /\ triggering[Root] = "KEY_U"
    /\ triggering[2] = "KEY_U"
    /\ out # <<>>

(***************************************************************************)
(* C7: every child macro, recursively, has the latches of the outermost    *)
(* macro after any calls of press_trigger and release_trigger on it, and a *)
(* press_trigger on a macro that is holding changes no latch and no        *)
(* triggering event of it or of its children.                              *)
(***************************************************************************)
C7_ChildrenFollowTrigger ==
    /\ [](\A m \in Descendants(Root) :
            /\ released[m] = released[Root]
            /\ pressed[m] = pressed[Root]
            /\ triggering[m] = triggering[Root])
    /\ [][(~released[Root] /\ ~released'[Root])
            => UNCHANGED <<released, pressed, triggering>>]_vars

\* the child of the child of modify(...) holds, pressed with KEY_T
C7_Witness ==
    /\ prog = 2
    /\ ~released[3]
    /\ triggering[3] = "KEY_T"
    /\ 3 \in Descendants(Root)

(***************************************************************************)
(* C8: a call of run on a macro that is running executes no task and       *)
(* writes nothing; no macro has more than one run in progress; the run in  *)
(* progress is the one that holds the running flag, which is reset when it *)
(* ends.                                                                   *)
(***************************************************************************)
C8_OneRunAtATime ==
    /\ [](\A m \in MacroIds : FramesOf(m) <= 1 /\ (running[m] <=> FramesOf(m) = 1))
    /\ [][rejected' # rejected
            => UNCHANGED <<out, stack, running, busy, woken, macro_variables>>]_vars

\* a run that was called again while it ran has ended and reset the flag
C8_Witness ==
    /\ rejected > 0
    /\ calls = rejected + 1
    /\ stack = <<>>
    /\ ~running[Root]
    /\ out # <<>>

(***************************************************************************)
(* C9: when a task raises, the run of its macro ends there (its remaining  *)
(* tasks are not executed, nothing more is written by it), the macro is no *)
(* longer running, and the caller's frame is left as it was, so that the   *)
(* parent goes on after the call; no error leaves a macro marked running.  *)
(***************************************************************************)
TaskRaises ==
    /\ busy
    /\ stack # <<>>
    /\ Top.i <= Len(Tasks(Top.m))
    /\ Top.l = "start"
    /\ \/ TopTask.op = "repeat" /\ _resolve(TopTask.arg, TRUE, FALSE).k # "int"
       \/ TopTask.op = "if_single" /\ triggering[Top.m] = NoEvent

C9_ErrorEndsOnlyThatRun ==
    /\ [][TaskRaises =>
            /\ stack' = Pop(stack)
            /\ running' = [running EXCEPT ![Top.m] = FALSE]
            /\ out' = out
            /\ busy' = (Len(stack) > 1)]_vars
    /\ [](stack = <<>> => \A m \in MacroIds : ~running[m])
    /\ [](prog \in {4, 5} => Count(out, <<"b", 1>>) = 0)
    /\ []((prog = 5 /\ stack = <<>>)
            => out = Times(calls - rejected, << <<"Shift_L", 1>>, <<"Shift_L", 0>> >>))

\* modify(Shift_L, repeat($n, ...).key(b)) was run twice; both times the child
\* was aborted and the modifier released
C9_Witness ==
    /\ prog = 5
    /\ stack = <<>>
    /\ calls = 2
    /\ rejected = 0
    /\ Len(out) = 4

(***************************************************************************)
(* C10: every if_single that has decided has run exactly one branch once   *)
(* (the output after the runs is, decision by decision, the output of the  *)
(* branch taken); it took the then-branch when the first key event its     *)
(* listener was called with was the release of the triggering key, and the *)
(* else-branch when the listener was called with no key event, which       *)
(* happens only by the timeout.                                            *)
(***************************************************************************)
IfSinglePrograms == {9, 10}

RECURSIVE BranchOutput(_)
BranchOutput(bs) ==
    IF bs = <<>> THEN <<>>
    ELSE MacroOutput(IF Head(bs) = "then" THEN Tasks(Root)[1].child
                     ELSE Tasks(Root)[1].alt) \o BranchOutput(Tail(bs))

C10_IfSingleOneBranch ==
    prog \in IfSinglePrograms =>
        /\ stack = <<>> => out = BranchOutput(branches)
        /\ (~IfSingleWaits /\ branches # <<>>) =>
            /\ (seen # <<>> /\ seen[1] = <<trigger_code, 0>>) => Last(branches) = "then"
            /\ seen = <<>> => (timed_out /\ Last(branches) = "else")

\* two runs: the first took the then-branch, the second timed out with no key
\* event and took the else-branch
C10_Witness ==
    /\ prog = 9
    /\ stack = <<>>
    /\ branches = <<"then", "else">>
    /\ seen = <<>>
    /\ timed_out
    /\ out = << <<"a", 1>>, <<"a", 0>>, <<"b", 1>>, <<"b", 0>> >>

(***************************************************************************)
(* C11, as the claim states it: when the first key event the listener of   *)
(* an if_single was called with is the press of a key other than the       *)
(* trigger, the task takes the else-branch, whatever else the listener is  *)
(* called with before the task has resumed and removed it.                 *)
(***************************************************************************)
OtherKeyFirst ==
    /\ seen # <<>>
    /\ seen[1][1] # trigger_code
    /\ seen[1][2] = 1

C11_OtherKeyRunsElse ==
    (prog \in IfSinglePrograms /\ ~IfSingleWaits /\ branches # <<>> /\ OtherKeyFirst)
        => Last(branches) = "else"

(***************************************************************************)
(* C12, as the claim states it: a listener of an if_single is in the       *)
(* listener set only while its task waits; when the task has ended, also   *)
(* by an error, the listener is not in the set.                            *)
(***************************************************************************)
C12_ListenerRemoved ==
    \A l \in listeners :
        \E k \in 1..Len(stack) :
            stack[k].m = l[1] /\ stack[k].i = l[2] /\ stack[k].l = "s_wait"

(***************************************************************************)
(* C13: what _order_combinations returns is a permutation of its input in  *)
(* which a longer combination comes before every shorter one and, of two   *)
(* combinations of equal length, the one with the common event at the      *)
(* higher index comes first.                                               *)
(***************************************************************************)
C13_OrderedLongestFirst ==
    sorted_combinations # NotCalled =>
        /\ sorted_combinations # Raised
        /\ Len(sorted_combinations) = Len(combinations)
        /\ Elements(sorted_combinations) = Elements(combinations)
        /\ \A i, j \in 1..Len(sorted_combinations) :
              LET x == sorted_combinations[i]
                  y == sorted_combinations[j]
              IN /\ Len(x) > Len(y) => i < j
                 /\ (Len(x) = Len(y) /\ index(x, common_event) > index(y, common_event))
                        => i < j

\* b, b+a+c and a+b+c were ordered: a+b+c, then b+a+c, then b
C13_Witness ==
    /\ combinations = << <<"b">>, <<"b", "a", "c">>, <<"a", "b", "c">> >>
    /\ sorted_combinations = << <<"a", "b", "c">>, <<"b", "a", "c">>, <<"b">> >>

(***************************************************************************)
(* C14: the sub-handler of an AbsToBtnHandler is notified with 1, 0, 1,    *)
(* ... in turn, starting with 1; the latch is the last value it was        *)
(* notified with; a call of notify with an event of the axis that leaves   *)
(* the pressed state as it is returns true and notifies nobody, and one    *)
(* that changes it notifies the sub-handler once, with the new state.      *)
(***************************************************************************)
C14_EdgeTriggered ==
    /\ \A i \in 1..Len(sub_notified) : sub_notified[i] = i % 2
    /\ abs_active = (sub_notified # <<>> /\ Last(sub_notified) = 1)
    /\ (abs_call.called /\ abs_call.matching) =>
          IF (abs_call.as_key = 1) = abs_call.active
          THEN abs_call.returned /\ Len(sub_notified) = abs_call.notified
          ELSE /\ Len(sub_notified) = abs_call.notified + 1
               /\ Last(sub_notified) = abs_call.as_key

\* pressed, released and pressed again; the last event, above the trigger
\* point like the latch, was consumed without a notification
C14_Witness ==
    /\ sub_notified = <<1, 0, 1>>
    /\ abs_call.called /\ abs_call.matching
    /\ abs_call.active
    /\ abs_call.as_key = 1
    /\ abs_call.notified = 3
    /\ abs_call.returned

(***************************************************************************)
(* C15: the trigger point notify works with is 0 for the range [-1, 1]     *)
(* with every configured percent; for every other range it is the integer  *)
(* part of midpoint + half range * percent / 100, that is of               *)
(* ((max + min) * 100 + (max - min) * percent) / 200; it is 255 for        *)
(* [0, 255] with percent 100 and 0 with percent -100.                      *)
(***************************************************************************)
Abs(n) == IF n < 0 THEN -n ELSE n

C15_TriggerPoint ==
    (abs_call.called /\ abs_call.matching) =>
        LET t == abs_call.trigger_point
            n == (absinfo[2] + absinfo[1]) * 100
                     + (absinfo[2] - absinfo[1]) * input_event_value
        IN /\ absinfo = <<-1, 1>> => t = 0
           /\ absinfo # <<-1, 1>> =>
                 /\ 200 * Abs(t) <= Abs(n)
                 /\ Abs(n) < 200 * (Abs(t) + 1)
                 /\ (t > 0 => n > 0) /\ (t < 0 => n < 0)
           /\ (absinfo = <<0, 255>> /\ input_event_value = 100) => t = 255
           /\ (absinfo = <<0, 255>> /\ input_event_value = -100) => t = 0

\* the hat switch with percent 100, where the formula of the other ranges
\* gives 1
C15_Witness ==
    /\ absinfo = <<-1, 1>>
    /\ input_event_value = 100
    /\ abs_call.called /\ abs_call.matching
    /\ abs_call.trigger_point = 0
    /\ abs_call.value = 1
    /\ abs_call.as_key = 1

(***************************************************************************)
(* C16: a KeyHandler whose write succeeds has written (mapped type, mapped *)
(* code, value of the event) to the target and returned true; one whose    *)
(* write fails has written nothing, raised nothing and returned false; and *)
(* the event is forwarded, once and as it came, exactly when every handler *)
(* of its pipeline returned false.                                         *)
(***************************************************************************)
RECURSIVE WritesOf(_, _, _)
WritesOf(h, value, available) ==
    IF h > Len(available) THEN <<>>
    ELSE (IF available[h] THEN << <<MapsTo(h)[1], MapsTo(h)[2], value>> >> ELSE <<>>)
         \o WritesOf(h + 1, value, available)

Classifiable(mapping) ==
    \/ mapping.disabled
    \/ mapping.output_symbol \in {"macro", "key"}
    \/ mapping.output_type = "EV_KEY"
    \/ mapping.axis # "none" /\ mapping.output_type \in {"EV_REL", "EV_ABS"}

\* an axis target whose handler has no class yet
WithoutHandlerClass(mapping) ==
    /\ ~mapping.disabled
    /\ mapping.output_symbol = "none"
    /\ mapping.output_type \in {"EV_REL", "EV_ABS"}
    /\ mapping.axis # "none"
    /\ <<mapping.output_type, mapping.axis>> # <<"EV_REL", "EV_ABS">>

ModifyPrograms == {2, 5, 6}

ModifierHeld ==
    \E k \in 1..Len(stack) :
        /\ stack[k].i <= Len(Tasks(stack[k].m))
        /\ Tasks(stack[k].m)[stack[k].i].op = "modify"
        /\ stack[k].l \in {"m_pause2", "m_after", "m_pause3"}

\* how often the modifier was pressed and not yet released in the first n writes
HeldAfter(n) ==
    Count(SubSeq(out, 1, n), <<"Shift_L", 1>>) - Count(SubSeq(out, 1, n), <<"Shift_L", 0>>)

C18_ModifierAroundChild ==
    prog \in ModifyPrograms =>
        /\ HeldAfter(Len(out)) = IF ModifierHeld THEN 1 ELSE 0
        /\ \A j \in 1..Len(out) :
              /\ out[j] = <<"Shift_L", 1>> => HeldAfter(j - 1) = 0
              /\ out[j] = <<"Shift_L", 0>> => HeldAfter(j - 1) = 1
              /\ out[j][1] = "a" => HeldAfter(j - 1) = 1
              /\ out[j][1] = "b" => HeldAfter(j - 1) = 0
        /\ \A k \in 1..(Len(stack) - 1) :
              (Tasks(stack[k].m)[stack[k].i].op = "modify") => stack[k].l = "m_after"

\* the child of modify(Shift_L, ...) was ended by an error after the press
\* and the task is about to write the release
C18_Witness ==
    /\ prog = 5
    /\ Len(stack) = 1
    /\ Top.l = "m_pause3"
    /\ out = << <<"Shift_L", 1>> >>

(***************************************************************************)
(* C19: after its runs have ended a macro has written what n runs of the   *)
(* child of repeat(n, child) write, one after the other, per run of the    *)
(* macro: with n a number, with n a variable set before the task runs, and *)
(* when every repetition is ended by an error; with n a variable that is   *)
(* no number it has run the child not at all.                              *)
(***************************************************************************)
KeyA == << <<"a", 1>>, <<"a", 0>> >>

C19_RepeatsExactly ==
    stack = <<>> =>
        /\ prog = 2 => out = Times(calls - rejected,
                                   << <<"Shift_L", 1>> >> \o Times(2, KeyA)
                                       \o << <<"Shift_L", 0>>, <<"b", 1>>, <<"b", 0>> >>)
        /\ prog = 8 => out = Times(2 * (calls - rejected), KeyA)
        /\ prog = 13 => out = Times(2 * (calls - rejected), KeyA)
        /\ prog = 4 => out = <<>>

\* repeat(2, key(a).repeat($n, key(b))) has run twice: four repetitions, each
\* ended by the error of its second task
C19_Witness ==
    /\ prog = 13
    /\ stack = <<>>
    /\ calls = 2
    /\ rejected = 0
    /\ out = Times(4, KeyA)

(***************************************************************************)
(* C20: an if_tap task runs at most one branch.  It runs the then-branch   *)
(* if and only if, before the timeout passed, the trigger was released     *)
(* (when it was held as the task began to wait) or pressed and then        *)
(* released (when it was not); it runs the else-branch if and only if the  *)
(* timeout passed before that; with a timeout that is no number it runs    *)
(* neither.  What is written is what the one branch writes.                *)
(***************************************************************************)
IfTapPrograms == {14, 15}

Tapped ==
    IF tap.held
    THEN \E j \in 1..Len(tap.events) : tap.events[j] = "release"
    ELSE \E i, j \in 1..Len(tap.events) :
            i < j /\ tap.events[i] = "press" /\ tap.events[j] = "release"

BranchWrites(name) ==
    IF name = "then" THEN << <<"a", 1>>, <<"a", 0>> >> ELSE << <<"b", 1>>, <<"b", 0>> >>

C20_TapOrTimeout ==
    prog \in IfTapPrograms =>
        /\ Len(tap.ran) <= 1
        /\ tap.ran = <<"then">> => (Tapped /\ ~timed_out)
        /\ tap.ran = <<"else">> => (timed_out /\ ~Tapped)
        /\ (Tapped /\ ~TapPending) => tap.ran = <<"then">>
        /\ (prog = 14 /\ timed_out /\ ~TapPending) => tap.ran = <<"else">>
        /\ prog = 15 => (tap.ran = <<>> /\ out = <<>>)
        /\ (prog = 14 /\ stack = <<>> /\ calls > rejected) =>
              /\ Len(out) = 2 * (calls - rejected)
              /\ SubSeq(out, Len(out) - 1, Len(out)) = BranchWrites(tap.ran[1])

\* the second run of if_tap(key(a), key(b), 300) found the trigger released,
\* saw it pressed and released and ran then; the first had timed out
C20_Witness ==
    /\ prog = 14
    /\ stack = <<>>
    /\ tap = [held |-> FALSE, events |-> <<"press", "release">>, ran |-> <<"then">>]
    /\ out = << <<"b", 1>>, <<"b", 0>>, <<"a", 1>>, <<"a", 0>> >>

(***************************************************************************)
(* C21, as the claim states it: the macro task has been suspended at least *)
(* once in every repetition of hold(macro) by the time the repetition ends *)
(* and the loop checks the latch again, and every turn of a mouse or wheel *)
(* loop that has written ends at a suspension point or ends the task.      *)
(***************************************************************************)
RepetitionEnds ==
    /\ Len(stack) > 1
    /\ stack' = Pop(stack)
    /\ LET f == stack[Len(stack) - 1] IN
        /\ f.i <= Len(Tasks(f.m))
        /\ Tasks(f.m)[f.i].op = "hold_macro"

RelWritten == (InTask("mouse") \/ InTask("wheel")) /\ out' # out

C21_LoopsSuspend ==
    /\ [][RepetitionEnds => suspended']_vars
    /\ [][RelWritten => (~busy' \/ stack' = Pop(stack))]_vars

(***************************************************************************)
(* C22: a mouse or wheel task writes its relative event only in a step     *)
(* that found the macro holding: nothing when the trigger is not held as   *)
(* the task starts, nothing more after a release unless the trigger was    *)
(* pressed again before the loop checked; and what it writes is the event  *)
(* of its direction (and, for mouse, speed).                               *)
(***************************************************************************)
RelPrograms == {17, 18}

RelEvent == IF prog = 17 THEN <<"REL_Y", -4>> ELSE <<"REL_WHEEL", -1>>

AtRelCheck ==
    /\ InTask("mouse") \/ InTask("wheel")
    /\ (busy /\ Top.l = "start") \/ (~busy /\ Top.l = "rel_sleep")

C22_RelOnlyWhileHolding ==
    /\ [][RelWritten => (~released[Top.m] /\ out' = Append(out, RelEvent))]_vars
    /\ [][(AtRelCheck /\ released[Top.m] /\ stack' # stack) => out' = out]_vars
    /\ [](prog \in RelPrograms =>
            \A j \in 1..Len(out) : out[j] = RelEvent \/ out[j][1] = "b")

\* mouse(up, 4).key(b): two events were written while the trigger was held,
\* then the trigger was released, the loop ended and key(b) has run
C22_Witness ==
    /\ prog = 17
    /\ stack = <<>>
    /\ released[Root]
    /\ out = << <<"REL_Y", -4>>, <<"REL_Y", -4>>, <<"b", 1>>, <<"b", 0>> >>

(***************************************************************************)
(* C23, as the claim states it: a handler coroutine of an event has        *)
(* started only if the coroutine of the handler before it in the list of   *)
(* callbacks has returned its result.                                      *)
(***************************************************************************)
HandlerStarted(h) == h_state[h] \in {"waiting", "woken", "done"}

C23_HandlersSequential ==
    \A h \in 2..MaxHandlers : HandlerStarted(h) => h_state[h - 1] = "done"

(***************************************************************************)
(* C24: no listener and no handler is ever called with a key event of      *)
(* value 2, and no such event is written to the forward device.            *)
(***************************************************************************)
KeyRepeatType(e) == e.type = "EV_KEY" /\ e.value = 2

C24_KeyRepeatDropped ==
    /\ \A e \in l_notified \cup h_notified : ~KeyRepeatType(e)
    /\ \A j \in 1..Len(forwarded) : ~KeyRepeatType(forwarded[j])

\* handle has returned for a key event of value 2 while a listener and a
\* handler for its code were registered: nothing was called or forwarded
C24_Witness ==
    /\ r_pc = "idle"
    /\ Len(completed) = 1
    /\ KeyRepeatType(completed[1].orig)
    /\ reader_listeners # {}
    /\ callbacks[<<"EV_KEY", "KEY_A">>] > 0
    /\ forwarded = <<>>
    /\ l_notified = {}
    /\ h_notified = {}

(***************************************************************************)
(* C25, as the claim states it: a set(name, value) task leaves the store   *)
(* with the value under name, and with the value the variable b had when   *)
(* the value is the reference $b; and the store changes in no other step.  *)
(***************************************************************************)
SetExecutes == InTask("set") /\ busy /\ Top.l = "start"

ValueSet ==
    IF TopTask.arg.k = "var" THEN macro_variables[TopTask.arg.v] ELSE TopTask.arg

C25_SetStoresValue ==
    /\ [][SetExecutes => macro_variables' = [macro_variables EXCEPT ![TopTask.child] = ValueSet]]_vars
    /\ [][macro_variables' # macro_variables => SetExecutes]_vars

(***************************************************************************)
(* C26: what get_capabilities returned for a macro is, per event type, the *)
(* union of the codes the macro and all its descendants had in their own   *)
(* capabilities at the time of the call, codes added since compilation     *)
(* included, and the call left the own capabilities of every macro as they *)
(* were.                                                                   *)
(***************************************************************************)
C26_CapabilitiesUnion ==
    cap_call.called =>
        /\ \A ty \in CapTypes :
              cap_call.result[ty] =
                  UNION {cap_call.before[d][ty] : d \in Descendants(cap_call.m)}
        /\ cap_call.after = cap_call.before

\* modify(Shift_L, repeat(2, key(a))).key(b): after a call, c was added to the
\* innermost macro; the next call on the outermost returns it with the rest
C26_Witness ==
    /\ prog = 2
    /\ cap_call.called
    /\ cap_call.m = Root
    /\ cap_adds = 1
    /\ cap_call.result["EV_KEY"] = {"Shift_L", "a", "b", "c"}
    /\ capabilities[Root]["EV_KEY"] = {"Shift_L", "b"}
    /\ capabilities[3]["EV_KEY"] = {"a", "c"}

(***************************************************************************)
(* C27: the sub-handler of a combination handler for three events is       *)
(* notified of a trigger in exactly the steps in which the last of the     *)
(* three becomes active while the other two are, and of a release in       *)
(* exactly the steps in which, after that, the first of the three becomes  *)
(* inactive; so triggers and releases alternate, beginning with a trigger, *)
(* and no second trigger comes while the handler is active.                *)
(***************************************************************************)
C27_CombinationGate ==
    /\ [](comb_output <=> get_active(comb_pressed))
    /\ [](\A j \in 1..Len(comb_sub) : comb_sub[j] = j % 2)
    /\ [][(~get_active(comb_pressed) /\ get_active(comb_pressed'))
            <=> comb_sub' = Append(comb_sub, 1)]_vars
    /\ [][(get_active(comb_pressed) /\ ~get_active(comb_pressed'))
            <=> comb_sub' = Append(comb_sub, 0)]_vars
    /\ [][comb_sub' = comb_sub \/ Len(comb_sub') = Len(comb_sub) + 1]_vars

\* triggered when event 2 came last, released by event 3, triggered again
\* when event 3 came back
C27_Witness ==
    /\ comb_sub = <<1, 0, 1>>
    /\ comb_call = [called |-> TRUE, event |-> 3, value |-> 1]
    /\ get_active(comb_pressed)


(***************************************************************************)
(* C28: when the active preset maps BTN_LEFT dangerously, the first call   *)
(* of Controller.start_injecting does not start the injection and its      *)
(* last message is an error status whose tooltip mentions BTN_LEFT; the    *)
(* call that directly follows it starts the injection.                     *)
(***************************************************************************)
MentionsBtnLeft(message) ==
    \E i \in 1..Len(message.tooltip) : message.tooltip[i] = "BTN_LEFT"

Applies(nr) ==
    /\ gui_call.op = "start_injecting"
    /\ gui_call.nr = nr
    /\ dangerously_mapped_btn_left(gui_call.preset)

C28_WarnsThenStarts ==
    /\ Applies(1) =>
        /\ ~gui_call.started
        /\ bus # <<>>
        /\ bus[Len(bus)].type = "status"
        /\ bus[Len(bus)].ctx = "CTX_ERROR"
        /\ MentionsBtnLeft(bus[Len(bus)])
    /\ (Applies(2) /\ gui_call.follows) => gui_call.started

C28_Witness ==
    /\ Applies(2)
    /\ gui_call.follows
    /\ gui_call.started

(***************************************************************************)
(* C29: Controller.create_mapping, called while the active preset has an   *)
(* empty mapping, leaves the number of mappings as it was and sends        *)
(* neither a mapping message nor a preset message.                         *)
(***************************************************************************)
Sent(type) == {i \in 1..Len(bus) : bus[i].type = type}

SecondEmptyMapping ==
    /\ gui_call.op = "create_mapping"
    /\ taken(gui_call.preset, empty_combination)

C29_NoSecondEmptyMapping ==
    SecondEmptyMapping =>
        /\ Cardinality(DOMAIN active_preset) = Cardinality(DOMAIN gui_call.preset)
        /\ Sent("mapping") = {}
        /\ Sent("preset") = {}

(***************************************************************************)
(* C30: Controller.update_combination with a combination that another      *)
(* mapping of the active preset uses sends no combination_update and       *)
(* leaves the combination of the active mapping as it was; with a          *)
(* combination no mapping uses it sends exactly one combination_update,    *)
(* which carries the old and the new combination.                          *)
(***************************************************************************)
Updates ==
    /\ gui_call.op = "update_combination"
    /\ gui_call.mapping # NoMapping

Duplicate ==
    /\ Updates
    /\ gui_call.arg # gui_call.mapping
    /\ taken(gui_call.preset, gui_call.arg)

Free ==
    /\ Updates
    /\ ~taken(gui_call.preset, gui_call.arg)

C30_DuplicateCombination ==
    /\ Duplicate =>
        /\ Sent("combination_update") = {}
        /\ active_mapping = gui_call.mapping
        /\ active_preset = gui_call.preset
    /\ Free =>
        /\ Cardinality(Sent("combination_update")) = 1
        /\ \A i \in Sent("combination_update") :
            /\ bus[i].old = gui_call.mapping
            /\ bus[i].new = gui_call.arg
        /\ active_mapping = gui_call.arg

C30_Witness ==
    /\ Duplicate
    /\ gui_call.mapping # empty_combination
    /\ gui_call.arg = empty_combination


(***************************************************************************)
(* C34: _get_output_handler returns disable for a disabled mapping; else   *)
(* macro or key by the output symbol; else key for the output type EV_KEY; *)
(* else, for the output type EV_REL or EV_ABS, the axis handler named by   *)
(* the type of the event with value 0 of the combination and the output    *)
(* type; and it raises MappingParsingError when the output is no key and   *)
(* the combination has no event with value 0 or the output type is none    *)
(* of these.                                                               *)
(***************************************************************************)
AxisHandler ==
    [input \in {"EV_KEY", "EV_REL", "EV_ABS"}, output \in {"EV_REL", "EV_ABS"} |->
        CASE input = "EV_KEY" /\ output = "EV_REL" -> "btn2rel"
          [] input = "EV_REL" /\ output = "EV_REL" -> "rel2rel"
          [] input = "EV_ABS" /\ output = "EV_REL" -> "abs2rel"
          [] input = "EV_KEY" /\ output = "EV_ABS" -> "btn2abs"
          [] input = "EV_REL" /\ output = "EV_ABS" -> "rel2abs"
          [] input = "EV_ABS" /\ output = "EV_ABS" -> "abs2abs"]

Classified == classified.result # "not called"

BySymbol == ~classified.mapping.disabled /\ classified.mapping.output_symbol # "none"

ByType ==
    /\ ~classified.mapping.disabled
    /\ classified.mapping.output_symbol = "none"

C34_OutputHandlerPrecedence ==
    Classified =>
        LET mapping == classified.mapping
            result == classified.result
        IN /\ mapping.disabled => result = "disable"
           /\ (BySymbol /\ mapping.output_symbol = "macro") => result = "macro"
           /\ (BySymbol /\ mapping.output_symbol = "key") => result = "key"
           /\ (ByType /\ mapping.output_type = "EV_KEY") => result = "key"
           /\ (ByType /\ mapping.output_type # "EV_KEY" /\ mapping.axis = "none")
                => result = "MappingParsingError"
           /\ (ByType /\ mapping.output_type \notin {"EV_KEY", "EV_REL", "EV_ABS"})
                => result = "MappingParsingError"
           /\ (ByType /\ <<mapping.axis, mapping.output_type>> \in DOMAIN AxisHandler)
                => result = AxisHandler[mapping.axis, mapping.output_type]

C34_Witness ==
    /\ Classified
    /\ ByType
    /\ classified.mapping.output_type = "EV_ABS"
    /\ classified.mapping.axis = "EV_REL"
    /\ classified.result = "rel2abs"


(***************************************************************************)
(* C35: the listeners called with an event are those of the listener set   *)
(* at the time the dispatch of the event started, each once: a listener    *)
(* that leaves the set during the dispatch is still called, one that joins *)
(* during the dispatch is not called with this event.                      *)
(***************************************************************************)
ToSet(sq) == {sq[i] : i \in DOMAIN sq}

DispatchStarts == r_pc = "read" /\ r_pc' = "listeners"

DispatchEnded == r_pc \in {"gather", "idle"}

C35_ListenersOfTheStart ==
    /\ [](DispatchEnded => l_calls = snapshot)
    /\ [][DispatchStarts =>
            /\ ToSet(snapshot') = reader_listeners
            /\ Len(snapshot') = Cardinality(reader_listeners)]_vars

\* listener 2 joined the set while listener 1 was called; the handlers are
\* called and listener 2 was not
C35_Witness ==
    /\ r_pc = "gather"
    /\ snapshot = <<1>>
    /\ l_calls = <<1>>
    /\ reader_listeners = {1, 2}

(***************************************************************************)
(* C37: the reader takes the next event from the source when the last one  *)
(* is done with: its listeners were called, its handlers have returned and *)
(* it was forwarded unless claimed; the events are done with in the order  *)
(* they were read in, and so are the forwarded ones written.               *)
(***************************************************************************)
EventTaken == nread' > nread

C37_OneEventAtATime ==
    /\ [](/\ Len(completed) <= nread
          /\ \A j \in 1..Len(completed) : completed[j].orig = source_read[j]
          /\ forwarded = Unclaimed(completed))
    /\ [][EventTaken =>
            /\ ready = <<>>
            /\ l_calls = snapshot
            /\ AllDone(h_state)
            /\ Len(completed) = nread]_vars

\* two different events were read and written to the forward device in
\* that order; the first had handlers, none of which claimed it
C37_Witness ==
    /\ nread = 2
    /\ Len(forwarded) = 2
    /\ forwarded[1] = source_read[1]
    /\ forwarded[2] = source_read[2]
    /\ forwarded[1] # forwarded[2]
    /\ callbacks[<<"EV_KEY", "KEY_A">>] > 0
    /\ forwarded[1].code = "KEY_A"


(***************************************************************************)
(* C39: of two AbsToBtnHandlers of one axis, one with a positive and one   *)
(* with a negative percent, at most one is active after an event of the    *)
(* axis, and a handler is not active after an event whose value is its     *)
(* trigger point.                                                          *)
(***************************************************************************)
C39_NeverBothActive ==
    /\ ~(abs_pair.active[1] /\ abs_pair.active[2])
    /\ abs_pair.call.called =>
        \A h \in {1, 2} :
            abs_pair.call.value = abs_pair.call.trigger_points[h] => ~abs_pair.active[h]

\* the event has the value of the trigger point of the negative handler,
\* which differs from that of the positive one, and neither handler is
\* active
C39_Witness ==
    /\ abs_pair.call.called
    /\ abs_pair.call.value = abs_pair.call.trigger_points[2]
    /\ abs_pair.call.trigger_points[1] # abs_pair.call.trigger_points[2]
    /\ abs_pair.range[1] < 0 - 1
    /\ abs_pair.active = <<FALSE, FALSE>>

(***************************************************************************)
(* C31: DataManager.set_autoload sets the autoload status of the active    *)
(* preset only: set_autoload(True) makes the active preset the one         *)
(* autoloaded preset of the active group, set_autoload(False) makes it not *)
(* autoloaded, and set_autoload(False) on a preset that is not the         *)
(* autoloaded one leaves the group's autoloaded preset unchanged.  The     *)
(* other groups keep their autoloaded preset.                              *)
(***************************************************************************)
SetAutoloadDone == dm_call.op = "set_autoload" /\ dm_call.raised = ""

C31_SetAutoloadOfActivePreset ==
    SetAutoloadDone =>
        LET g == dm_call.group
            n == dm_call.preset.name
            before == dm_call.autoload
        IN  /\ dm_call.arg = 1 => dm_autoload[g] = n
            /\ dm_call.arg = 0 => dm_autoload[g] # n
            /\ (dm_call.arg = 0 /\ before[g] # n) => dm_autoload[g] = before[g]
            /\ \A h \in Groups \ {g} : dm_autoload[h] = before[h]

(***************************************************************************)
(* C40: a set active mapping implies a set active preset, a set active     *)
(* preset implies a set active group; load_group clears the active preset  *)
(* and the active mapping, load_preset clears the active mapping,          *)
(* delete_preset clears both, delete_mapping clears the active mapping,    *)
(* and an operation rejected with DataManagementError or KeyError leaves   *)
(* all three unchanged.                                                    *)
(***************************************************************************)
DmDone(op) == dm_call.op = op /\ dm_call.raised = ""

C40_ActiveNesting ==
    /\ dm_mapping # NoMapping => dm_preset # NoPreset
    /\ dm_preset # NoPreset => dm_group # NoGroup
    /\ DmDone("load_group") => dm_preset = NoPreset /\ dm_mapping = NoMapping
    /\ DmDone("load_preset") => dm_mapping = NoMapping
    /\ DmDone("delete_preset") => dm_preset = NoPreset /\ dm_mapping = NoMapping
    /\ DmDone("delete_mapping") => dm_mapping = NoMapping
    /\ dm_call.raised \in {"DataManagementError", "KeyError"} =>
           /\ dm_group = dm_call.group
           /\ dm_preset = dm_call.preset
           /\ dm_mapping = dm_call.mapping

\* load_group was called while a mapping was active
C40_Witness ==
    /\ DmDone("load_group")
    /\ dm_call.mapping # NoMapping
    /\ dm_call.preset # NoPreset
    /\ dm_mapping = NoMapping

(***************************************************************************)
(* C36: when the listener of a waiting if_single reacts to an event by     *)
(* letting the macro run its then-branch, the key the macro writes is      *)
(* written before any write a handler makes for the same event and before  *)
(* the event is forwarded.                                                 *)
(***************************************************************************)
C36_MacroWritesFirst ==
    \A i \in DOMAIN el_log :
        el_log[i] \in {"handler", "forward"} =>
            \E j \in 1..(i - 1) : el_log[j] = "macro"

\* the cases in which the order holds: no timeout (or a wait_for that waits
\* in place) and a then-branch that writes at once
C36_DirectWake ==
    (wait_for(el_cfg) = "macro" /\ WritesAtOnce(el_cfg)) => C36_MacroWritesFirst

(***************************************************************************)
(* C32: for every event of the ranked combinations: when exactly one       *)
(* ranked combination contains it, that combination's handler itself is    *)
(* returned by _create_hierarchy_handlers and no hierarchy handler is made *)
(* for it; when several contain it, exactly one hierarchy handler keyed on *)
(* the event is returned, its sub-handlers are the handlers of all         *)
(* combinations containing the event in the order of _order_combinations,  *)
(* and the event is occluded on each of them.                              *)
(***************************************************************************)
KeyedOn(event) == {h \in pl_ranked : h.k = "hierarchy" /\ h.e = event}

RankedWith(event) == combinations_with_event(dict_keys(pl_need_ranking), event)

InRankOrder(event) ==
    LET ordered == _order_combinations(RankedWith(event), event)
    IN [i \in DOMAIN ordered |-> dict_get(pl_need_ranking, ordered[i])]

C32_HierarchyPerEvent ==
    pl_pc \in {"ranked", "returned"} =>
        \A event \in EventsOf(dict_keys(pl_need_ranking)) :
            IF Len(RankedWith(event)) = 1
            THEN /\ dict_get(pl_need_ranking, RankedWith(event)[1]) \in pl_ranked
                 /\ KeyedOn(event) = {}
            ELSE /\ Cardinality(KeyedOn(event)) = 1
                 /\ \A h \in KeyedOn(event) :
                      /\ pl_heap[h].input_events = <<event>>
                      /\ pl_heap[h].sub = InRankOrder(event)
                      /\ Len(pl_heap[h].sub) = Len(RankedWith(event))
                      /\ \A i \in DOMAIN pl_heap[h].sub :
                           event \notin Elements(pl_heap[pl_heap[h].sub[i]].input_events)

\* an event of one combination and an event shared by several, the shared
\* one with sub-handlers of combinations of different length
C32_Witness ==
    /\ pl_pc = "ranked"
    /\ \E event \in OrderEvents : Len(RankedWith(event)) = 1
    /\ \E h \in pl_ranked :
         /\ h.k = "hierarchy"
         /\ Len(pl_heap[h].sub) = 3
         /\ pl_heap[h].sub # [i \in DOMAIN RankedWith(h.e) |->
                                 dict_get(pl_need_ranking, RankedWith(h.e)[i])]

(***************************************************************************)
(* C33: in the map parse_mappings returns a handler is in the list of      *)
(* event e exactly when e is one of its input events that is still         *)
(* visible; a handler with no visible input event is in no list; inside    *)
(* each list the handlers are in the order in which they came into the     *)
(* handler list of parse_mappings, each once.                              *)
(***************************************************************************)
Discovered(h) == CHOOSE i \in DOMAIN pl_handlers : pl_handlers[i] = h

C33_PipelinesOfVisibleEvents ==
    pl_pc = "returned" =>
        /\ \A h \in DOMAIN pl_heap, e \in OrderEvents :
              h \in Elements(pl_pipelines[e]) <=> e \in Elements(pl_heap[h].input_events)
        /\ \A e \in OrderEvents :
              /\ Elements(pl_pipelines[e]) \subseteq Elements(pl_handlers)
              /\ \A i, j \in DOMAIN pl_pipelines[e] :
                    i < j => Discovered(pl_pipelines[e][i]) < Discovered(pl_pipelines[e][j])

\* a list of two handlers, one of them a hierarchy handler, and a handler
\* that is in no list because all its events are occluded
C33_Witness ==
    /\ pl_pc = "returned"
    /\ \E e \in OrderEvents :
         /\ Len(pl_pipelines[e]) = 2
         /\ pl_pipelines[e][1].k = "plain"
         /\ pl_pipelines[e][2].k = "hierarchy"
    /\ \E h \in DOMAIN pl_heap :
         /\ h.k = "combination"
         /\ pl_heap[h].input_events = <<>>

(***************************************************************************)
(* C38: every mapping of a preset with pairwise different combinations is  *)
(* represented in the result of parse_mappings: its output handler is      *)
(* reached from the list of each event of its combination, directly,       *)
(* through its wrappers or through a hierarchy handler; need_ranking holds *)
(* every handler that needs ranking.                                       *)
(***************************************************************************)
RECURSIVE Reaches(_, _, _)
Reaches(h, target, depth) ==
    \/ h = target
    \/ /\ depth > 0
       /\ \E i \in DOMAIN pl_heap[h].sub : Reaches(pl_heap[h].sub[i], target, depth - 1)

C38_EveryMappingRepresented ==
    /\ pl_pc # "mappings" =>
          Len(pl_need_ranking) =
              Cardinality({i \in DOMAIN pl_preset : pl_preset[i].kind = "key"})
    /\ pl_pc = "returned" =>
          \A i \in DOMAIN pl_preset :
              \A e \in Elements(pl_preset[i].combination) :
                  \E k \in DOMAIN pl_pipelines[e] :
                      Reaches(pl_pipelines[e][k], Hid(pl_preset[i].kind, i, ""), 3)

\* three mappings, two of them behind one hierarchy handler, one reached
\* through its combination handler alone and one directly
C38_Witness ==
    /\ pl_pc = "returned"
    /\ Len(pl_preset) = 3
    /\ \E e \in OrderEvents :
         \E k \in DOMAIN pl_pipelines[e] :
            /\ pl_pipelines[e][k].k = "hierarchy"
            /\ Len(pl_heap[pl_pipelines[e][k]].sub) = 2
    /\ \E e \in OrderEvents :
         \E k \in DOMAIN pl_pipelines[e] : pl_pipelines[e][k].k = "combination"
    /\ \E i \in DOMAIN pl_preset : pl_preset[i].kind = "plain"

====
